---- MODULE Spec2Model ----
(***************************************************************************)
(* OpenSimTelemetry: the replay engine (ost-server/src/replay.rs), the     *)
(* control-surface handlers and the playback driver task                   *)
(* (ost-server/src/api.rs), the manager's frame-read cycle                 *)
(* (ost-server/src/manager.rs), the frame bus (ost-server/src/state.rs)    *)
(* and the filtered serialization of a frame (ost-core/src/model.rs).      *)
(*                                                                         *)
(* The specifications that share the module:                                   *)
(*   SpecEngine  one ReplayState object driven by its methods              *)
(*   SpecServer  handlers, driver tasks and manager interleaved            *)
(*   SpecBus     the broadcast channel and its subscribers                 *)
(*   SpecJson    TelemetryFrame::to_json_filtered as a function            *)
(*   SpecMask    FieldMask::parse and FieldMask::includes as functions     *)
(*   SpecIbt     IbtFile::open, read_sample and read_samples_range         *)
(*   SpecFrames  replay_frames interleaved with uploads and deletes        *)
(*   SpecStream  unified_stream with toggles, sink requests and detection   *)
(*   SpecUnits   the percentage fields built by the normalizer and the demo *)
(*   SpecNormalizer  sample_to_frame: the sections and the extras           *)
(*   SpecYaml    IbtSessionInfo::from_yaml as a function                     *)
(*   SpecLocks   the read-write locks of AppState and the tasks' requests    *)
(* Each specification leaves the variables of the others unchanged.        *)
(***************************************************************************)
EXTENDS Integers, Sequences, FiniteSets, TLC

VARIABLES
  \* --- SpecEngine ---
  engine,        \* the ReplayState under test
  hist,          \* the last three calls made on it, oldest first
  prev,          \* the ReplayState before the last call
  ret,           \* what the last call returned
  \* --- SpecServer ---
  replay,        \* AppState.replay: None or a ReplayState
  replay_cancel, \* AppState.replay_cancel: None or a token id
  cancelled,     \* the set of cancellation tokens that were cancelled
  next_token,    \* the next fresh token id
  temp_file,     \* the temp file of the upload directory: None or its content
  issued,        \* how many control-surface requests have arrived
  reqs,          \* the handlers in flight (those of more than one step)
  resp,          \* the last response a handler returned
  drivers,       \* the spawned playback tasks, in spawn order
  manager,       \* the manager task: its position in frame_read_cycle
  active_adapter,\* AppState.active_adapter
  last_sent,     \* the last frame sent on telemetry_tx
  run,           \* history: the publications since the last load or seek
  seek_mark,     \* history: the last load/seek target and what was taken after it
  ended,         \* history: playback ended at the final frame, no play since
  \* --- SpecBus ---
  chan,          \* the broadcast channel: its buffer and counters
  subs,          \* the receivers: id -> receiver record
  \* --- SpecJson ---
  frame,         \* a TelemetryFrame
  mask,          \* the Option<FieldMask> handed to to_json_filtered
  json,          \* the top-level keys of the serialized output
  \* --- SpecMask ---
  entries,       \* the items a fields expression is written from
  expr,          \* the comma-delimited expression
  path,          \* the path asked of the mask
  built,         \* None, or the FieldMask that was constructed
  included,      \* None, or what includes(path) returned
  \* --- SpecIbt ---
  ibt_file,      \* a file on disk: its header fields and its sample bytes
  ibt,           \* None, or the IbtFile that open returned
  ibt_ret,       \* the last call on the parser and its result
  \* --- SpecFrames ---
  frames_resp,   \* None, or the last response of replay_frames
  \* --- SpecStream ---
  adapters,      \* AppState.adapters: is_active of each registered adapter
  disabled,      \* AppState.disabled_adapters
  sinks,         \* AppState.sinks: the ids of the sink configurations
  casts,         \* the handlers and the manager between write and broadcast
  receivers,     \* the receivers of status_tx and sinks_tx of the client
  client,        \* the unified stream of the one client
  ops,           \* the number of state changes made so far
  toggled,       \* what the last toggle_adapter did
  cycle,         \* history: the answers of the last detection cycle that started an adapter
  published,     \* history: the last JSON sent on status_tx and on sinks_tx
  \* --- SpecUnits ---
  sample,        \* the variables of one sample: name -> Option<VarValue>
  produced,      \* None, or the percentage fields of the frame produced
  \* --- SpecNormalizer ---
  raw,           \* the names of the variables of one sample
  normalized,    \* None, or what sample_to_frame made of the sample
  \* --- SpecYaml ---
  yaml,          \* the lines of the session YAML
  session_info,  \* None, or the IbtSessionInfo from_yaml returned
  \* --- SpecLocks ---
  held,          \* lock -> the guards that exist: <<task, mode>>
  waiters,       \* lock -> the queue of the requests not yet granted
  tasks          \* task -> the lock operations it has left, and its phase

engineVars == <<engine, hist, prev, ret>>
serverVars == <<replay, replay_cancel, cancelled, next_token, temp_file, issued,
                reqs, resp, drivers, manager, active_adapter, last_sent, run,
                seek_mark, ended>>
busVars    == <<chan, subs>>
jsonVars   == <<frame, mask, json>>
maskVars   == <<entries, expr, path, built, included>>
\* the variables of the specifications of the parsers and the small handlers
ibtVars    == <<ibt_file, ibt, ibt_ret>>
framesVars == <<frames_resp>>
streamVars == <<adapters, disabled, sinks, casts, receivers, client, ops,
                toggled, cycle, published>>
\* the server's variables the stream specification leaves alone
serverOther == <<replay, replay_cancel, cancelled, next_token, temp_file, issued,
                 reqs, resp, drivers, manager, last_sent, run, seek_mark,
                 ended>>
unitsVars  == <<sample, produced>>
normVars   == <<raw, normalized>>
yamlVars   == <<yaml, session_info>>
\* the variables of the specifications of the session YAML and of the locks
lockVars   == <<held, waiters, tasks>>
lateVars   == <<yamlVars, lockVars>>
restVars   == <<maskVars, ibtVars, framesVars, streamVars, unitsVars,
                normVars, lateVars>>
vars       == <<engineVars, serverVars, busVars, jsonVars, restVars>>
notEngine  == <<serverVars, busVars, jsonVars, restVars>>
notServer  == <<engineVars, busVars, jsonVars, restVars>>
notBus     == <<engineVars, serverVars, jsonVars, restVars>>
notJson    == <<engineVars, serverVars, busVars, restVars>>
coreVars   == <<engineVars, serverVars, busVars, jsonVars>>
notMask    == <<coreVars, ibtVars, framesVars, streamVars, unitsVars, normVars,
                lateVars>>
notIbt     == <<coreVars, maskVars, framesVars, streamVars, unitsVars, normVars,
                lateVars>>
notFrames  == <<engineVars, busVars, jsonVars, maskVars, ibtVars, streamVars,
                unitsVars, normVars, lateVars>>
notStream  == <<engineVars, serverOther, busVars, jsonVars, maskVars, ibtVars,
                framesVars, unitsVars, normVars, lateVars>>
notUnits   == <<coreVars, maskVars, ibtVars, framesVars, streamVars, normVars,
                lateVars>>
notNorm    == <<coreVars, maskVars, ibtVars, framesVars, streamVars, unitsVars,
                lateVars>>
notYaml    == <<coreVars, maskVars, ibtVars, framesVars, streamVars, unitsVars,
                normVars, lockVars>>
notLocks   == <<coreVars, maskVars, ibtVars, framesVars, streamVars, unitsVars,
                normVars, yamlVars>>

\* Option<T>: None is the empty sequence, Some(x) the one-element sequence
None == <<>>
Some(x) == <<x>>
IsSome(o) == o # <<>>
Unwrap(o) == o[1]

Min(a, b) == IF a <= b THEN a ELSE b
Max(a, b) == IF a >= b THEN a ELSE b

(***************************************************************************)
(* Bounds of the model.                                                    *)
(***************************************************************************)
\* the largest record_count of a recording
MaxFrames == 2
\* how many control-surface requests arrive in a run of SpecServer
MaxReqs == 2
\* the send calls on the frame bus
MaxSent == 7
\* the capacity the frame bus is created with, scaled down from 100
BusCapacity == 3
\* the populated sections of a frame and the items of a fields query
MaxPopulated == 2
MaxTokens == 2
MaxOps == 3
MaxVars == 3

(***************************************************************************)
(* ReplayState (replay.rs).  playback_speed is an f64 in the code; it is   *)
(* counted here in tenths, so 0.1 is 1 and 16.0 is 160.                    *)
(***************************************************************************)
SpeedMin == 1
SpeedMax == 160
SpeedDefault == 10

\* usize::saturating_sub
saturating_sub(a, b) == IF a >= b THEN a - b ELSE 0

\* f64::clamp
clamp(x, lo, hi) == IF x < lo THEN lo ELSE IF x > hi THEN hi ELSE x

\* ReplayState::from_file: the cursor of a freshly parsed recording; `gen`
\* names the upload the recording came from
from_file(total, gen) ==
  [current_frame |-> 0, total_frames |-> total, playing |-> TRUE,
   playback_speed |-> SpeedDefault, gen |-> gen]

play(rs) == [rs EXCEPT !.playing = TRUE]

pause(rs) == [rs EXCEPT !.playing = FALSE]

seek_unclamped(rs, f) == [rs EXCEPT !.current_frame = f]
seek(rs, f) ==
  [rs EXCEPT !.current_frame = Min(f, saturating_sub(rs.total_frames, 1))]

set_speed_unclamped(rs, speed) == [rs EXCEPT !.playback_speed = speed]
set_speed(rs, speed) ==
  [rs EXCEPT !.playback_speed = clamp(speed, SpeedMin, SpeedMax)]

\* ReplayState::advance: the new state and the returned Option<usize>
advance_past_end(rs) ==
  IF ~rs.playing
  THEN [rs |-> rs, ret |-> None]
  ELSE [rs |-> [rs EXCEPT !.current_frame = @ + 1],
        ret |-> Some(rs.current_frame + 1)]
advance(rs) ==
  IF ~rs.playing
  THEN [rs |-> rs, ret |-> None]
  ELSE IF rs.current_frame >= saturating_sub(rs.total_frames, 1)
  THEN [rs |-> [rs EXCEPT !.playing = FALSE], ret |-> None]
  ELSE [rs |-> [rs EXCEPT !.current_frame = @ + 1],
        ret |-> Some(rs.current_frame + 1)]

(***************************************************************************)
(* SpecEngine: one loaded ReplayState and every sequence of calls on it.   *)
(***************************************************************************)
\* the frame arguments of seek: inside, at and past the end
SeekArgs == 0 .. (MaxFrames + 1)
\* the speed arguments of set_speed, in tenths: 0, 0.5 and 100.0
SpeedArgs == {0, 5, 1000}

Push(h, c) == IF Len(h) < 3 THEN Append(h, c) ELSE Append(Tail(h), c)

\* a call on the engine; arg is 0 for the calls that take none
Call(op, arg) == [op |-> op, arg |-> arg]

EngineInit ==
  /\ \E n \in 0 .. MaxFrames : engine = from_file(n, 1)
  /\ hist = <<>>
  /\ prev = engine
  /\ ret = None

EPlay ==
  /\ engine' = play(engine)
  /\ hist' = Push(hist, Call("play", 0))
  /\ prev' = engine
  /\ ret' = None
  /\ UNCHANGED notEngine

EPause ==
  /\ engine' = pause(engine)
  /\ hist' = Push(hist, Call("pause", 0))
  /\ prev' = engine
  /\ ret' = None
  /\ UNCHANGED notEngine

ESeek ==
  \E f \in SeekArgs :
    /\ engine' = seek(engine, f)
    /\ hist' = Push(hist, Call("seek", f))
    /\ prev' = engine
    /\ ret' = None
    /\ UNCHANGED notEngine

ESetSpeed ==
  \E x \in SpeedArgs :
    /\ engine' = set_speed(engine, x)
    /\ hist' = Push(hist, Call("set_speed", x))
    /\ prev' = engine
    /\ ret' = None
    /\ UNCHANGED notEngine

EAdvance ==
  /\ engine' = advance(engine).rs
  /\ hist' = Push(hist, Call("advance", 0))
  /\ prev' = engine
  /\ ret' = advance(engine).ret
  /\ UNCHANGED notEngine

EngineNext == EPlay \/ EPause \/ ESeek \/ ESetSpeed \/ EAdvance

(***************************************************************************)
(* SpecServer: the replay handlers of api.rs, the playback tasks spawned   *)
(* by start_playback_task and the manager's frame_read_cycle, interleaved  *)
(* at their suspension points.  The runtime is multi-threaded (#[tokio::   *)
(* main]), so a step is one lock-protected block or one lock-free access.  *)
(***************************************************************************)
\* the "value" of a seek request, an f64 in the code: below, inside, past the end
SeekValues == -1 .. MaxFrames
\* the "value" of a speed request, in tenths
SpeedValues == {1000}

\* `value as usize`: the cast saturates, a negative value becomes 0
as_usize(v) == IF v < 0 THEN 0 ELSE v

Req(id, kind, pc) == [id |-> id, kind |-> kind, pc |-> pc, total |-> 0]

\* a response: the handler and its status; PANICKED is the handler whose
\* unwrap in start_playback_task panicked
Resp(kind, status) == [kind |-> kind, status |-> status]

\* a playback task: its position, its clone of the token, the frame it holds
Driver(tok) == [pc |-> "top", token |-> tok, frame |-> None]
DoneDriver == [pc |-> "done", token |-> 0, frame |-> None]

\* get_frame(rs.current_frame()): the frame at the cursor
ReplayFrame_after_advance(rs) ==
  [src |-> "replay", gen |-> rs.gen, idx |-> advance(rs).rs.current_frame]
ReplayFrame(rs) == [src |-> "replay", gen |-> rs.gen, idx |-> rs.current_frame]
LiveFrame(key) == [src |-> key, gen |-> 0, idx |-> 0]

\* history of the last load or seek: the cursor it stored, whether the engine
\* was playing, the task whose emit step came first after it (0: none yet,
\* -1: that step's read failed) and the frame that task then sent
NoMark == [op |-> "none", target |-> 0, playing |-> FALSE, by |-> 0, sent |-> None]
Mark(op, rs) == [op |-> op, target |-> rs.current_frame, playing |-> rs.playing,
                 by |-> 0, sent |-> None]
NotEnded == [on |-> FALSE, by |-> 0, final_sent |-> FALSE]

\* history of the publications since the last load or seek: the index sent
\* last, and whether every read of the emit step succeeded
NoRun == [last |-> None, clean |-> TRUE]

\* AppState::new
ServerInit ==
  /\ replay = None
  /\ replay_cancel = None
  /\ cancelled = {}
  /\ next_token = 1
  /\ temp_file = None
  /\ issued = 0
  /\ reqs = {}
  /\ resp = Resp("none", "none")
  /\ drivers = <<>>
  /\ manager = [pc |-> "idle", key |-> "", out |-> "none"]
  /\ active_adapter = None
  /\ last_sent = None
  /\ run = NoRun
  /\ seek_mark = NoMark
  /\ ended = NotEnded

\* --- replay_upload ---
\* the first block: the check of the replay slot under the read lock
UploadCheck ==
  /\ issued < MaxReqs
  /\ issued' = issued + 1
  /\ IF IsSome(replay)
     THEN /\ resp' = Resp("upload", "CONFLICT")
          /\ UNCHANGED reqs
     ELSE /\ reqs' = reqs \cup {Req(issued + 1, "upload", "parse")}
          /\ UNCHANGED resp
  /\ UNCHANGED <<notServer, replay, replay_cancel, cancelled, next_token, temp_file, drivers,
                 manager, active_adapter, last_sent, run, seek_mark, ended>>

\* the multipart field, the file name and the blocking closure: write the temp
\* file, then ReplayState::from_file
UploadParse(r) ==
  /\ r \in reqs /\ r.kind = "upload" /\ r.pc = "parse"
  /\ \/ \* no field, a name that does not end in .ibt, unreadable data
        /\ reqs' = reqs \ {r}
        /\ resp' = Resp("upload", "BAD_REQUEST")
        /\ UNCHANGED temp_file
     \/ \* the temp directory or the temp file cannot be written
        /\ reqs' = reqs \ {r}
        /\ resp' = Resp("upload", "INTERNAL_SERVER_ERROR")
        /\ UNCHANGED temp_file
     \/ \* from_file fails: the temp file is written, then removed
        /\ reqs' = reqs \ {r}
        /\ resp' = Resp("upload", "BAD_REQUEST")
        /\ temp_file' = None
     \/ \* the recording parses, with any record count
        \E n \in 0 .. MaxFrames :
          /\ reqs' = (reqs \ {r}) \cup {[r EXCEPT !.pc = "install", !.total = n]}
          /\ temp_file' = Some(r.id)
          /\ UNCHANGED resp
  /\ UNCHANGED <<notServer, replay, replay_cancel, cancelled, next_token, issued, drivers,
                 manager, active_adapter, last_sent, run, seek_mark, ended>>

\* *replay = Some(replay_state): a ReplayState it replaces is dropped, and its
\* Drop removes the temp path, which every upload of one file name shares
UploadInstall(r) ==
  /\ r \in reqs /\ r.kind = "upload" /\ r.pc = "install"
  /\ replay' = Some(from_file(r.total, r.id))
  /\ temp_file' = IF IsSome(replay) THEN None ELSE temp_file
  /\ reqs' = (reqs \ {r}) \cup {[r EXCEPT !.pc = "cancel"]}
  /\ seek_mark' = Mark("load", from_file(r.total, r.id))
  /\ ended' = NotEnded
  /\ run' = NoRun
  /\ UNCHANGED <<notServer, replay_cancel, cancelled, next_token, issued, resp, drivers,
                 manager, active_adapter, last_sent>>

\* --- start_playback_task ---
\* the first block: cancel the token in the slot, store a new one
StartCancel(r) ==
  /\ r \in reqs /\ r.pc = "cancel" /\ r.kind \in {"upload", "play"}
  /\ cancelled' = IF IsSome(replay_cancel)
                  THEN cancelled \cup {Unwrap(replay_cancel)} ELSE cancelled
  /\ replay_cancel' = Some(next_token)
  /\ next_token' = next_token + 1
  /\ reqs' = (reqs \ {r}) \cup {[r EXCEPT !.pc = "token"]}
  /\ UNCHANGED <<notServer, replay, temp_file, issued, resp, drivers, manager,
                 active_adapter, last_sent, run, seek_mark, ended>>

\* the second block and the spawn: clone the token now in the slot (the unwrap
\* panics on an empty slot) and start the task with it
StartSpawn(r) ==
  /\ r \in reqs /\ r.pc = "token"
  /\ reqs' = reqs \ {r}
  /\ IF IsSome(replay_cancel)
     THEN /\ drivers' = Append(drivers, Driver(Unwrap(replay_cancel)))
          /\ resp' = Resp(r.kind, "OK")
     ELSE /\ resp' = Resp(r.kind, "PANICKED")
          /\ UNCHANGED drivers
  /\ UNCHANGED <<notServer, replay, replay_cancel, cancelled, next_token, temp_file, issued,
                 manager, active_adapter, last_sent, run, seek_mark, ended>>

\* --- replay_control ---
\* "play": rs.play() under the write lock, then start_playback_task
ControlPlay ==
  /\ issued < MaxReqs
  /\ issued' = issued + 1
  /\ ended' = NotEnded
  /\ IF IsSome(replay)
     THEN /\ replay' = Some(play(Unwrap(replay)))
          /\ reqs' = reqs \cup {Req(issued + 1, "play", "cancel")}
          /\ UNCHANGED resp
     ELSE /\ resp' = Resp("play", "NOT_FOUND")
          /\ UNCHANGED <<replay, reqs>>
  /\ UNCHANGED <<notServer, replay_cancel, cancelled, next_token, temp_file, drivers,
                 manager, active_adapter, last_sent, run, seek_mark>>

ControlPause ==
  /\ issued < MaxReqs
  /\ issued' = issued + 1
  /\ IF IsSome(replay)
     THEN /\ replay' = Some(pause(Unwrap(replay)))
          /\ resp' = Resp("pause", "OK")
     ELSE /\ resp' = Resp("pause", "NOT_FOUND")
          /\ UNCHANGED replay
  /\ UNCHANGED <<notServer, replay_cancel, cancelled, next_token, temp_file, reqs, drivers,
                 manager, active_adapter, last_sent, run, seek_mark, ended>>

ControlSeek ==
  /\ issued < MaxReqs
  /\ issued' = issued + 1
  /\ IF IsSome(replay)
     THEN \E v \in SeekValues :
            /\ replay' = Some(seek(Unwrap(replay), as_usize(v)))
            /\ seek_mark' = Mark("seek", seek(Unwrap(replay), as_usize(v)))
            /\ resp' = Resp("seek", "OK")
            /\ run' = NoRun
     ELSE /\ resp' = Resp("seek", "NOT_FOUND")
          /\ UNCHANGED <<replay, seek_mark, run>>
  /\ UNCHANGED <<notServer, replay_cancel, cancelled, next_token, temp_file, reqs, drivers,
                 manager, active_adapter, last_sent, ended>>

ControlSpeed ==
  /\ issued < MaxReqs
  /\ issued' = issued + 1
  /\ IF IsSome(replay)
     THEN \E x \in SpeedValues :
            /\ replay' = Some(set_speed(Unwrap(replay), x))
            /\ resp' = Resp("speed", "OK")
     ELSE /\ resp' = Resp("speed", "NOT_FOUND")
          /\ UNCHANGED replay
  /\ UNCHANGED <<notServer, replay_cancel, cancelled, next_token, temp_file, reqs, drivers,
                 manager, active_adapter, last_sent, run, seek_mark, ended>>

\* an unknown action, or a seek or speed without its value
ControlBad ==
  /\ issued < MaxReqs
  /\ issued' = issued + 1
  /\ resp' = Resp("bad", IF IsSome(replay) THEN "BAD_REQUEST" ELSE "NOT_FOUND")
  /\ UNCHANGED <<notServer, replay, replay_cancel, cancelled, next_token, temp_file, reqs,
                 drivers, manager, active_adapter, last_sent, run, seek_mark, ended>>

\* --- replay_delete ---
\* the first block: take the token out of the slot and cancel it
DeleteCancel ==
  /\ issued < MaxReqs
  /\ issued' = issued + 1
  /\ cancelled' = IF IsSome(replay_cancel)
                  THEN cancelled \cup {Unwrap(replay_cancel)} ELSE cancelled
  /\ replay_cancel' = None
  /\ reqs' = reqs \cup {Req(issued + 1, "delete", "drop")}
  /\ UNCHANGED <<notServer, replay, next_token, temp_file, resp, drivers, manager,
                 active_adapter, last_sent, run, seek_mark, ended>>

\* the second block: empty the replay slot; the dropped ReplayState removes
\* its temp file
DeleteDrop(r) ==
  /\ r \in reqs /\ r.kind = "delete" /\ r.pc = "drop"
  /\ reqs' = reqs \ {r}
  /\ IF IsSome(replay)
     THEN /\ replay' = None
          /\ temp_file' = None
          /\ ended' = NotEnded
          /\ resp' = Resp("delete", "NO_CONTENT")
     ELSE /\ resp' = Resp("delete", "NOT_FOUND")
          /\ UNCHANGED <<replay, temp_file, ended>>
  /\ UNCHANGED <<notServer, replay_cancel, cancelled, next_token, issued, drivers, manager,
                 active_adapter, last_sent, run, seek_mark>>

\* --- the playback task spawned by start_playback_task ---
Cancelled(d) == drivers[d].token \in cancelled

SetDriver(d, rec) == [drivers EXCEPT ![d] = rec]

\* the top of the loop: cancel_token.is_cancelled()
DriverTop(d) ==
  /\ d \in DOMAIN drivers /\ drivers[d].pc = "top"
  /\ drivers' = SetDriver(d, IF Cancelled(d) THEN DoneDriver
                            ELSE [drivers[d] EXCEPT !.pc = "snapshot"])
  /\ UNCHANGED <<notServer, replay, replay_cancel, cancelled, next_token, temp_file, issued,
                 reqs, resp, manager, active_adapter, last_sent, run, seek_mark, ended>>

\* the snapshot of (is_playing, tick_rate, playback_speed) under the read lock
DriverSnapshot(d) ==
  /\ d \in DOMAIN drivers /\ drivers[d].pc = "snapshot"
  /\ drivers' = SetDriver(d,
       IF ~IsSome(replay) THEN DoneDriver
       ELSE IF Unwrap(replay).playing THEN [drivers[d] EXCEPT !.pc = "emit"]
       ELSE [drivers[d] EXCEPT !.pc = "paused"])
  /\ UNCHANGED <<notServer, replay, replay_cancel, cancelled, next_token, temp_file, issued,
                 reqs, resp, manager, active_adapter, last_sent, run, seek_mark, ended>>

\* not playing: select between the token and a 50 ms sleep
DriverPaused(d) ==
  /\ d \in DOMAIN drivers /\ drivers[d].pc = "paused"
  /\ drivers' = SetDriver(d, IF Cancelled(d) THEN DoneDriver
                            ELSE [drivers[d] EXCEPT !.pc = "top"])
  /\ UNCHANGED <<notServer, replay, replay_cancel, cancelled, next_token, temp_file, issued,
                 reqs, resp, manager, active_adapter, last_sent, run, seek_mark, ended>>

\* the results get_frame(idx) can have: read_sample fails past the last
\* record, and any read of the file can fail
ReadResults(rs) == IF rs.current_frame < rs.total_frames THEN {"ok", "err"} ELSE {"err"}

\* whether advance() on rs ends the playback at the final frame
EndsPlayback(rs) == rs.playing /\ ~advance(rs).rs.playing

\* the emit step under the write lock: read the frame at the cursor, advance
DriverEmit(d) ==
  /\ d \in DOMAIN drivers /\ drivers[d].pc = "emit"
  /\ IF ~IsSome(replay)
     THEN /\ drivers' = SetDriver(d, DoneDriver)
          /\ UNCHANGED <<replay, seek_mark, ended, run>>
     ELSE LET rs == Unwrap(replay) IN
          \E res \in ReadResults(rs) :
            /\ replay' = Some(advance(rs).rs)
            /\ drivers' = SetDriver(d,
                 IF res = "ok"
                 THEN [drivers[d] EXCEPT !.pc = "send", !.frame = Some(ReplayFrame(rs))]
                 ELSE [drivers[d] EXCEPT !.pc = "sleep"])
            /\ seek_mark' = IF seek_mark.by # 0 THEN seek_mark
                            ELSE [seek_mark EXCEPT !.by = IF res = "ok" THEN d ELSE -1]
            /\ ended' = IF EndsPlayback(rs)
                        THEN [on |-> TRUE, by |-> d, final_sent |-> (res = "err")]
                        ELSE ended
            /\ run' = IF res = "ok" THEN run ELSE [run EXCEPT !.clean = FALSE]
  /\ UNCHANGED <<notServer, replay_cancel, cancelled, next_token, temp_file, issued, reqs,
                 resp, manager, active_adapter, last_sent>>

\* tx.send(frame), after the lock is released
DriverSend(d) ==
  /\ d \in DOMAIN drivers /\ drivers[d].pc = "send"
  /\ last_sent' = drivers[d].frame
  /\ run' = [run EXCEPT !.last = Some(Unwrap(drivers[d].frame).idx)]
  /\ drivers' = SetDriver(d, [drivers[d] EXCEPT !.pc = "sleep", !.frame = None])
  /\ seek_mark' = IF seek_mark.by = d /\ ~IsSome(seek_mark.sent)
                  THEN [seek_mark EXCEPT !.sent = Some(Unwrap(drivers[d].frame).idx)]
                  ELSE seek_mark
  /\ ended' = IF ended.on /\ ended.by = d THEN [ended EXCEPT !.final_sent = TRUE]
              ELSE ended
  /\ UNCHANGED <<notServer, replay, replay_cancel, cancelled, next_token, temp_file, issued,
                 reqs, resp, manager, active_adapter>>

\* the paced sleep: select between the token and the interval
DriverSleep(d) ==
  /\ d \in DOMAIN drivers /\ drivers[d].pc = "sleep"
  /\ drivers' = SetDriver(d, IF Cancelled(d) THEN DoneDriver
                            ELSE [drivers[d] EXCEPT !.pc = "top"])
  /\ UNCHANGED <<notServer, replay, replay_cancel, cancelled, next_token, temp_file, issued,
                 reqs, resp, manager, active_adapter, last_sent, run, seek_mark, ended>>

\* --- frame_read_cycle of the manager ---
\* the first block: return when a replay is loaded
ManagerCheckReplay ==
  /\ manager.pc = "idle"
  /\ manager' = IF IsSome(replay) THEN [manager EXCEPT !.out = "skipped"]
                ELSE [manager EXCEPT !.pc = "active", !.out = "none"]
  /\ UNCHANGED <<notServer, replay, replay_cancel, cancelled, next_token, temp_file, issued,
                 reqs, resp, drivers, active_adapter, last_sent, run, seek_mark, ended>>

\* the second block: clone the active key, return when there is none
ManagerActiveKey ==
  /\ manager.pc = "active"
  /\ manager' = IF IsSome(active_adapter)
                THEN [manager EXCEPT !.pc = "read", !.key = Unwrap(active_adapter)]
                ELSE [manager EXCEPT !.pc = "idle"]
  /\ UNCHANGED <<notServer, replay, replay_cancel, cancelled, next_token, temp_file, issued,
                 reqs, resp, drivers, active_adapter, last_sent, run, seek_mark, ended>>

\* the third block: read_frame on the adapter, send what it returns
ManagerReadFrame ==
  /\ manager.pc = "read"
  /\ \E out \in {"frame", "none", "err"} :
       /\ manager' = [pc |-> "idle", key |-> "", out |-> out]
       /\ last_sent' = IF out = "frame" THEN Some(LiveFrame(manager.key)) ELSE last_sent
  /\ UNCHANGED <<notServer, replay, replay_cancel, cancelled, next_token, temp_file, issued,
                 reqs, resp, drivers, active_adapter, seek_mark, ended, run>>

ServerNext ==
  \/ UploadCheck
  \/ \E r \in reqs : UploadParse(r)
  \/ \E r \in reqs : UploadInstall(r)
  \/ \E r \in reqs : StartCancel(r)
  \/ \E r \in reqs : StartSpawn(r)
  \/ ControlPlay
  \/ ControlPause
  \/ ControlSeek
  \/ ControlSpeed
  \/ ControlBad
  \/ DeleteCancel
  \/ \E r \in reqs : DeleteDrop(r)
  \/ \E d \in DOMAIN drivers : DriverTop(d)
  \/ \E d \in DOMAIN drivers : DriverSnapshot(d)
  \/ \E d \in DOMAIN drivers : DriverPaused(d)
  \/ \E d \in DOMAIN drivers : DriverEmit(d)
  \/ \E d \in DOMAIN drivers : DriverSend(d)
  \/ \E d \in DOMAIN drivers : DriverSleep(d)

\* the manager's frame_read_cycle interleaved with uploads, deletes and the
\* playback tasks the uploads start
LiveNext ==
  \/ UploadCheck
  \/ \E r \in reqs : UploadParse(r)
  \/ \E r \in reqs : UploadInstall(r)
  \/ \E r \in reqs : StartCancel(r)
  \/ \E r \in reqs : StartSpawn(r)
  \/ DeleteCancel
  \/ \E r \in reqs : DeleteDrop(r)
  \/ \E d \in DOMAIN drivers : DriverTop(d)
  \/ \E d \in DOMAIN drivers : DriverSnapshot(d)
  \/ \E d \in DOMAIN drivers : DriverPaused(d)
  \/ \E d \in DOMAIN drivers : DriverEmit(d)
  \/ \E d \in DOMAIN drivers : DriverSend(d)
  \/ \E d \in DOMAIN drivers : DriverSleep(d)
  \/ ManagerCheckReplay
  \/ ManagerActiveKey
  \/ ManagerReadFrame

\* the server with an adapter the detection cycle has started
LiveInit ==
  /\ replay = None
  /\ replay_cancel = None
  /\ cancelled = {}
  /\ next_token = 1
  /\ temp_file = None
  /\ issued = 0
  /\ reqs = {}
  /\ resp = Resp("none", "none")
  /\ drivers = <<>>
  /\ manager = [pc |-> "idle", key |-> "", out |-> "none"]
  /\ active_adapter \in {None, Some("iracing")}
  /\ last_sent = None
  /\ run = NoRun
  /\ seek_mark = NoMark
  /\ ended = NotEnded

(***************************************************************************)
(* The frame bus (SpecBus): the tokio broadcast channel AppState::new      *)
(* creates, the receivers subscribe() hands to the stream handlers, the    *)
(* tx.send of the publishers and the recv of a stream.  A frame is named   *)
(* by the number of the send call that published it.                       *)
(***************************************************************************)
\* the stream handlers that can hold a receiver
Subscribers == {1, 2}

\* usize::next_power_of_two: the channel rounds the capacity it is given
RECURSIVE pow2_from(_, _)
pow2_from(p, n) == IF p >= n THEN p ELSE pow2_from(2 * p, n)
next_power_of_two(n) == pow2_from(1, n)

\* broadcast::channel(capacity): the ring of slots, slot i at position
\* i - len, the tail position and the receiver count; sent and ret are the
\* number of send calls and what the last one returned
channel(capacity) ==
  LET len == next_power_of_two(capacity) IN
  [ buffer |-> [i \in 1 .. len |-> [pos |-> (i - 1) - len, val |-> None]],
    pos    |-> 0,
    rx_cnt |-> 0,
    sent   |-> 0,
    ret    |-> "none" ]

\* the slot of a position: pos & mask, on 1-based sequences
SlotOf(c, pos) == c.buffer[(pos % Len(c.buffer)) + 1]

\* the frames the ring holds: the one written last and the one written first
Newest(c) == SlotOf(c, c.pos - 1).val
Oldest(c) == SlotOf(c, c.pos - Len(c.buffer)).val

\* a handler without a receiver
NoReceiver == [st |-> "none", next |-> 0, since |-> 0, got |-> <<>>,
               sig |-> "none", missed |-> 0]

\* Sender::subscribe: the cursor of a new receiver is the tail position
new_receiver_oldest(c) == Max(0, c.pos - Len(c.buffer))
new_receiver(c) == c.pos

\* the cursor a lagged receiver is given: the oldest position the ring holds
lagged_next_newest(c) == c.pos - 1
lagged_next(c) == c.pos - Len(c.buffer)

\* AppState::new
BusInit ==
  /\ chan = channel(BusCapacity)
  /\ subs = [s \in Subscribers |-> NoReceiver]

\* state.subscribe() at the start of a stream handler
Subscribe(s) ==
  /\ subs[s].st = "none"
  /\ chan' = [chan EXCEPT !.rx_cnt = @ + 1]
  /\ subs' = [subs EXCEPT ![s] = [NoReceiver EXCEPT !.st = "open",
                                    !.next = new_receiver(chan),
                                    !.since = chan.sent]]
  /\ UNCHANGED notBus

\* the stream of a handler is dropped when its client goes away
Unsubscribe(s) ==
  /\ subs[s].st = "open"
  /\ chan' = [chan EXCEPT !.rx_cnt = @ - 1]
  /\ subs' = [subs EXCEPT ![s].st = "closed"]
  /\ UNCHANGED notBus

\* tx.send(frame): an error that returns the frame when there is no receiver,
\* else the frame is written over the slot of the tail position
Send ==
  /\ chan.sent < MaxSent
  /\ chan' = IF chan.rx_cnt = 0
             THEN [chan EXCEPT !.sent = @ + 1, !.ret = "Err"]
             ELSE [chan EXCEPT !.sent = @ + 1, !.ret = "Ok",
                     !.pos = @ + 1,
                     !.buffer[(chan.pos % Len(chan.buffer)) + 1] =
                        [pos |-> chan.pos, val |-> Some(chan.sent + 1)]]
  /\ UNCHANGED <<subs, notBus>>

\* whether recv finds nothing to return and awaits the next send
Empty(s) == SlotOf(chan, subs[s].next).pos + Len(chan.buffer) = subs[s].next

\* one item of BroadcastStream: recv returns the frame at the cursor, or
\* Lagged(missed) when the slot of the cursor has been written over
Recv(s) ==
  /\ subs[s].st = "open"
  /\ ~Empty(s)
  /\ LET rx   == subs[s]
         slot == SlotOf(chan, rx.next)
         missed == lagged_next(chan) - rx.next
     IN  subs' = [subs EXCEPT ![s] =
           IF slot.pos = rx.next
           THEN [rx EXCEPT !.next = @ + 1, !.got = Append(@, Unwrap(slot.val)),
                           !.sig = "frame", !.missed = 0]
           ELSE IF missed = 0
           THEN [rx EXCEPT !.next = @ + 1, !.got = Append(@, Unwrap(slot.val)),
                           !.sig = "frame", !.missed = 0]
           ELSE [rx EXCEPT !.next = lagged_next(chan),
                           !.sig = "lagged", !.missed = missed]]
  /\ UNCHANGED <<chan, notBus>>

BusNext ==
  \/ \E s \in Subscribers : Subscribe(s)
  \/ \E s \in Subscribers : Unsubscribe(s)
  \/ Send
  \/ \E s \in Subscribers : Recv(s)

(***************************************************************************)
(* The projection of a frame (SpecJson): FieldMask::parse on the fields    *)
(* query of a stream request, FieldMask::includes and                      *)
(* TelemetryFrame::to_json_filtered.  A string is the sequence of its      *)
(* characters; the serialized object is the function from its top-level    *)
(* keys to "value" or "null".                                              *)
(***************************************************************************)
\* the domain sections of TelemetryFrame, in the order of its fields
Sections == <<"motion", "vehicle", "engine", "wheels", "timing", "session",
              "weather", "pit", "electronics", "damage", "competitors", "driver">>
SectionSet == {Sections[i] : i \in DOMAIN Sections}

\* the characters of the names to_json_filtered passes to includes
Chars ==
  [ motion      |-> <<"m", "o", "t", "i", "o", "n">>,
    vehicle     |-> <<"v", "e", "h", "i", "c", "l", "e">>,
    engine      |-> <<"e", "n", "g", "i", "n", "e">>,
    wheels      |-> <<"w", "h", "e", "e", "l", "s">>,
    timing      |-> <<"t", "i", "m", "i", "n", "g">>,
    session     |-> <<"s", "e", "s", "s", "i", "o", "n">>,
    weather     |-> <<"w", "e", "a", "t", "h", "e", "r">>,
    pit         |-> <<"p", "i", "t">>,
    electronics |-> <<"e", "l", "e", "c", "t", "r", "o", "n", "i", "c", "s">>,
    damage      |-> <<"d", "a", "m", "a", "g", "e">>,
    competitors |-> <<"c", "o", "m", "p", "e", "t", "i", "t", "o", "r", "s">>,
    driver      |-> <<"d", "r", "i", "v", "e", "r">>,
    extras      |-> <<"e", "x", "t", "r", "a", "s">> ]

Speed == <<"s", "p", "e", "e", "d">>
Dot == <<".">>

\* the fields of VehicleData; serde writes every one of them, null when absent
VehicleData ==
  { "speed", "rpm", "max_rpm", "idle_rpm", "gear", "max_gears", "throttle",
    "brake", "clutch", "steering_angle", "steering_torque",
    "steering_torque_pct", "handbrake", "on_track", "in_garage",
    "track_surface" }

\* the items a fields query is made of: a section, a section in capitals, a
\* section after a space, dotted paths below a section, the extras, and a
\* proper prefix of a section name
Tokens ==
  { Chars.motion,
    Chars.vehicle \o Dot \o Speed,
    <<"V", "e", "h", "i", "c", "l", "e">>,
    <<" ">> \o Chars.pit,
    Chars.engine \o <<".", "r", "p", "m">>,
    Chars.extras,
    <<"w", "h", "e", "e", "l">> }

\* the queries: up to MaxTokens items joined by commas
RECURSIVE join(_)
join(items) ==
  IF items = <<>> THEN <<>>
  ELSE IF Len(items) = 1 THEN items[1]
  ELSE items[1] \o <<",">> \o join(Tail(items))

Queries ==
  UNION { {join(q) : q \in [1 .. n -> Tokens]} : n \in 0 .. MaxTokens }

\* str::to_lowercase, on the letters the queries hold
LowerOf == [V |-> "v", S |-> "s"]
to_lowercase(str) ==
  [i \in 1 .. Len(str) |-> IF str[i] \in DOMAIN LowerOf THEN LowerOf[str[i]] ELSE str[i]]

\* str::trim
RECURSIVE trim_start(_)
trim_start(str) ==
  IF str # <<>> /\ str[1] = " " THEN trim_start(Tail(str)) ELSE str
RECURSIVE trim_end(_)
trim_end(str) ==
  IF str # <<>> /\ str[Len(str)] = " "
  THEN trim_end(SubSeq(str, 1, Len(str) - 1)) ELSE str
trim(str) == trim_end(trim_start(str))

\* str::split(','): the pieces between the commas, the empty ones too
RECURSIVE split(_, _)
split(str, piece) ==
  IF str = <<>> THEN <<piece>>
  ELSE IF str[1] = "," THEN <<piece>> \o split(Tail(str), <<>>)
  ELSE split(Tail(str), Append(piece, str[1]))

\* str::find('.'): the position of the first dot, 0 when there is none
RECURSIVE find_dot(_, _)
find_dot(str, i) ==
  IF i > Len(str) THEN 0 ELSE IF str[i] = "." THEN i ELSE find_dot(str, i + 1)

\* str::starts_with
starts_with(str, prefix) ==
  Len(prefix) <= Len(str) /\ SubSeq(str, 1, Len(prefix)) = prefix

\* FieldMask::all and FieldMask::parse
all == [fields |-> {}, include_all |-> TRUE]
parse(query) ==
  LET pieces == split(query, <<>>)
      items  == {to_lowercase(trim(pieces[i])) : i \in DOMAIN pieces}
  IN  [fields |-> {item \in items : item # <<>>}, include_all |-> FALSE]

is_all(m) == m.include_all

\* FieldMask::includes
includes_without_children(m, field) ==
  LET field_lower == to_lowercase(field)
      dot_pos     == find_dot(field_lower, 1)
  IN  \/ m.include_all
      \/ field_lower \in m.fields
      \/ dot_pos > 0 /\ SubSeq(field_lower, 1, dot_pos - 1) \in m.fields
includes(m, field) ==
  LET field_lower == to_lowercase(field)
      dot_pos     == find_dot(field_lower, 1)
  IN  \/ m.include_all
      \/ field_lower \in m.fields
      \/ dot_pos > 0 /\ SubSeq(field_lower, 1, dot_pos - 1) \in m.fields
      \/ \E f \in m.fields :
           /\ starts_with(f, field_lower)
           /\ Len(f) > Len(field_lower)
           /\ f[Len(field_lower) + 1] = "."

\* a TelemetryFrame: its tick, its sections and whether it has extras
Frame(tick, populated, extras) ==
  [ tick     |-> tick,
    sections |-> [S \in SectionSet |-> IF S \in populated THEN Some(S) ELSE None],
    extras   |-> extras ]

Frames ==
  { Frame(tick, populated, extras) :
      tick \in {None, Some(1)},
      populated \in {P \in SUBSET SectionSet : Cardinality(P) <= MaxPopulated},
      extras \in BOOLEAN }

EmptyMap == [k \in {} |-> "value"]
Insert(map, key, value) == (key :> value) @@ map

\* serde_json::to_value of an Option
to_value(opt) == IF IsSome(opt) THEN "value" ELSE "null"

\* serde_json::to_string(self): every field of the frame, null for an absent
\* one; the extras are skipped when empty
to_string(f) ==
  LET header == Insert(Insert(Insert(EmptyMap, "timestamp", "value"),
                              "game", "value"), "tick", to_value(f.tick))
      body   == [S \in SectionSet |-> to_value(f.sections[S])] @@ header
  IN  IF f.extras THEN Insert(body, "extras", "value") ELSE body

\* whether the projection inserts section S of the frame
inserts_unpopulated(f, m, S) == includes(m, Chars[S])
inserts(f, m, S) == includes(m, Chars[S]) /\ IsSome(f.sections[S])

\* TelemetryFrame::to_json_filtered
to_json_filtered(f, opt_mask) ==
  IF ~IsSome(opt_mask) \/ is_all(Unwrap(opt_mask)) THEN to_string(f)
  ELSE
    LET m       == Unwrap(opt_mask)
        header  == Insert(Insert(EmptyMap, "timestamp", "value"), "game", "value")
        ticked  == IF IsSome(f.tick) THEN Insert(header, "tick", "value") ELSE header
        sects   == [S \in {S \in SectionSet : inserts(f, m, S)}
                      |-> to_value(f.sections[S])] @@ ticked
    IN  IF includes(m, Chars.extras) /\ f.extras
        THEN Insert(sects, "extras", "value") ELSE sects

\* a frame on the bus and the mask of a stream request
JsonInit ==
  /\ frame \in {Some(f) : f \in Frames}
  /\ mask \in {None, Some(all)} \cup {Some(parse(q)) : q \in Queries}
  /\ json = None

\* the stream handler serializes the frame
Serialize ==
  /\ json = None
  /\ json' = Some(to_json_filtered(Unwrap(frame), mask))
  /\ UNCHANGED <<frame, mask, notJson>>

JsonNext == Serialize

(***************************************************************************)
(* The field mask (SpecMask): a mask is constructed from an expression, or *)
(* as the all-including mask, and asked for a path.                        *)
(***************************************************************************)
\* the items of an expression: a section, a section padded and in capitals,
\* dotted paths, a prefix of a section, nothing, a blank, a leading dot
MaskItems ==
  { Chars.vehicle,
    <<" ", "V", "e", "h", "i", "c", "l", "e", " ">>,
    Chars.vehicle \o Dot \o Speed,
    Chars.vehicle \o Dot \o Speed \o Dot \o <<"x">>,
    <<"v", "e", "h">>,
    <<>>,
    <<" ">>,
    Dot \o Speed }

\* the paths asked
MaskPaths ==
  { Chars.vehicle,
    Chars.vehicle \o Dot \o Speed,
    <<"V", "e", "h", "i", "c", "l", "e">> \o Dot \o <<"S", "p", "e", "e", "d">>,
    Chars.vehicle \o Dot \o Speed \o Dot \o <<"x">>,
    Chars.vehicle \o Dot \o <<"r", "p", "m">>,
    Chars.vehicle \o <<"s">>,
    <<"v", "e", "h">>,
    Speed,
    <<>> }

MaskInit ==
  /\ entries \in UNION { [1 .. n -> MaskItems] : n \in 0 .. MaxTokens }
  /\ expr = join(entries)
  /\ path \in MaskPaths
  /\ built = None
  /\ included = None

\* FieldMask::parse(expr)
ParseMask ==
  /\ built = None
  /\ built' = Some(parse(expr))
  /\ UNCHANGED <<entries, expr, path, included, notMask>>

\* FieldMask::all()
AllMask ==
  /\ built = None
  /\ built' = Some(all)
  /\ UNCHANGED <<entries, expr, path, included, notMask>>

\* mask.includes(path)
Includes ==
  /\ IsSome(built) /\ included = None
  /\ included' = Some(includes(Unwrap(built), path))
  /\ UNCHANGED <<entries, expr, path, built, notMask>>

MaskNext == ParseMask \/ AllMask \/ Includes

(***************************************************************************)
(* The recording parser (SpecIbt): IbtFile::open on a file, then           *)
(* read_sample and read_samples_range on the handle.  The sample region of *)
(* a file is a sequence of bytes, byte k holding the value k.              *)
(***************************************************************************)
\* the variable table of the files: a scalar, an array, and a variable whose
\* window ends past the sample buffer (elements of one byte)
VarHeaders ==
  << [name |-> "SessionTick", offset |-> 0, count |-> 1],
     [name |-> "CarIdxLap",   offset |-> 1, count |-> 2],
     [name |-> "Overhang",    offset |-> 2, count |-> 2] >>

\* a file: the version and buf_len of the header, the record count of the
\* disk sub-header, whether the header regions are whole, the sample bytes
IbtFiles ==
  { [ ver |-> v, buf_len |-> 3, session_record_count |-> rc,
      regions_whole |-> w, data |-> [k \in 1 .. n |-> k] ] :
      v \in 1 .. 3, rc \in 0 .. MaxFrames, w \in BOOLEAN,
      n \in 0 .. 3 * MaxFrames }

Ok(val) == [ok |-> TRUE, err |-> "", val |-> val]
Err(kind) == [ok |-> FALSE, err |-> kind, val |-> <<>>]

\* File::read_exact after a seek to offset: the bytes, or an error when the
\* file ends before them
read_exact(data, offset, n) ==
  IF offset + n <= Len(data) THEN Ok(SubSeq(data, offset + 1, offset + n))
  ELSE Err("Io")

\* the loop over var_headers: a variable whose window ends past the buffer is
\* skipped, a count of one gives a scalar, any other count an array
decode(buf) ==
  LET fits == {i \in DOMAIN VarHeaders :
                 VarHeaders[i].offset + VarHeaders[i].count <= Len(buf)}
      header(name) == CHOOSE vh \in {VarHeaders[i] : i \in fits} : vh.name = name
  IN  [name \in {VarHeaders[i].name : i \in fits} |->
         [ array |-> header(name).count # 1,
           v |-> SubSeq(buf, header(name).offset + 1,
                        header(name).offset + header(name).count) ]]

\* IbtFile::open: the header regions are read, the version is not looked at
open(file) ==
  IF file.regions_whole THEN Ok(file) ELSE Err("Io")

record_count(h) == h.session_record_count

\* IbtFile::read_sample
read_sample(h, index) ==
  IF index >= record_count(h) THEN Err("OutOfRange")
  ELSE LET bytes == read_exact(h.data, index * h.buf_len, h.buf_len)
       IN  IF bytes.ok THEN Ok(decode(bytes.val)) ELSE bytes

\* IbtFile::read_samples_range
read_samples_range(h, start, count) ==
  IF start >= record_count(h) THEN Err("OutOfRange")
  ELSE LET clamped_count == Min(count, record_count(h) - start) IN
       IF clamped_count = 0 THEN Ok(<<>>)
       ELSE LET bulk == read_exact(h.data, start * h.buf_len,
                                   h.buf_len * clamped_count)
            IN  IF ~bulk.ok THEN bulk
                ELSE Ok([i \in 1 .. clamped_count |->
                           decode(SubSeq(bulk.val, (i - 1) * h.buf_len + 1,
                                         i * h.buf_len))])

IbtCall(op, a, b, result) == Some([op |-> op, a |-> a, b |-> b, result |-> result])

IbtInit ==
  /\ ibt_file \in {Some(f) : f \in IbtFiles}
  /\ ibt = None
  /\ ibt_ret = None

Open ==
  /\ ibt = None /\ ibt_ret = None
  /\ LET result == open(Unwrap(ibt_file)) IN
       /\ ibt' = IF result.ok THEN Some(result.val) ELSE None
       /\ ibt_ret' = IbtCall("open", 0, 0, [result EXCEPT !.val = <<>>])
  /\ UNCHANGED <<ibt_file, notIbt>>

ReadSample ==
  /\ IsSome(ibt)
  /\ \E index \in 0 .. MaxFrames :
       ibt_ret' = IbtCall("read_sample", index, 0, read_sample(Unwrap(ibt), index))
  /\ UNCHANGED <<ibt_file, ibt, notIbt>>

ReadSamplesRange ==
  /\ IsSome(ibt)
  /\ \E start \in 0 .. MaxFrames, count \in 0 .. MaxFrames + 1 :
       ibt_ret' = IbtCall("read_samples_range", start, count,
                          read_samples_range(Unwrap(ibt), start, count))
  /\ UNCHANGED <<ibt_file, ibt, notIbt>>

IbtNext == Open \/ ReadSample \/ ReadSamplesRange

(***************************************************************************)
(* The frames-range endpoint (SpecFrames): replay_frames interleaved with  *)
(* the steps of uploads and deletes.                                       *)
(***************************************************************************)
\* the replay_id from_file computes: a hash of the metadata of the file, of
\* which the engine of the model keeps the record count
replay_id(rs) == <<"rid", rs.total_frames>>

\* the rid of a request: none, or the replay_id of some recording
Rids == {None} \cup {Some(<<"rid", n>>) : n \in 0 .. MaxFrames}

\* the Cache-Control header replay_frames chooses
cache_header(rid, rs) == IF IsSome(rid) THEN "immutable" ELSE "no-cache"

FramesResp(status, rid, cache, current) ==
  Some([status |-> status, rid |-> rid, cache |-> cache, current |-> current])

\* replay_frames, under the read lock of the replay slot; get_frames_range
\* fails on a recording of no records and on a failed read
FramesRequest ==
  \E rid \in Rids :
    /\ IF ~IsSome(replay)
       THEN frames_resp' = FramesResp("NOT_FOUND", rid, "none", None)
       ELSE LET rs == Unwrap(replay) IN
            \E read \in (IF rs.total_frames = 0 THEN {"err"} ELSE {"ok", "err"}) :
              frames_resp' =
                IF read = "err"
                THEN FramesResp("INTERNAL_SERVER_ERROR", rid, "none", Some(replay_id(rs)))
                ELSE FramesResp("OK", rid, cache_header(rid, rs), Some(replay_id(rs)))
    /\ UNCHANGED <<serverVars, notFrames>>

FramesNext ==
  \/ UploadCheck
  \/ \E r \in reqs : UploadParse(r)
  \/ \E r \in reqs : UploadInstall(r)
  \/ \E r \in reqs : StartCancel(r)
  \/ \E r \in reqs : StartSpawn(r)
  \/ DeleteCancel
  \/ \E r \in reqs : DeleteDrop(r)
  \/ FramesRequest

(***************************************************************************)
(* The unified stream (SpecStream): unified_stream with toggle_adapter,    *)
(* create_sink, delete_sink and the manager's detection_cycle.  Each block *)
(* that holds locks is one step; a handler's broadcast is a later step.    *)
(***************************************************************************)
\* the adapters run registers, in the order of registration
Keys == <<"iracing", "demo">>
KeySet == {Keys[i] : i \in 1 .. Len(Keys)}

\* what detect() and start() answer in one detection cycle: the demo adapter
\* is always detected and always starts
Answers == {d \in [KeySet -> BOOLEAN] : d["demo"]}

\* the JSON broadcast_adapter_status builds (active and enabled of each
\* adapter; detected is the answer of the game and is left out)
\* (status_json_all_enabled is a status that ignores the disabled set,
\* which the code does not build)
status_json_all_enabled(ads, act, dis) ==
  [k \in KeySet |-> [active  |-> ads[k].active \/ act = Some(k),
                     enabled |-> TRUE]]
status_json(ads, act, dis) ==
  [k \in KeySet |-> [active  |-> ads[k].active \/ act = Some(k),
                     enabled |-> k \notin dis]]

\* format!("sink-{}", n)
sink_id(n) == <<"sink-", n>>
\* the id of a create_sink request: empty, or given
SinkIdArgs == {<<>>, sink_id(2)}

\* broadcast::Sender::send to the receiver of the client, if it exists
send_to(r, msg) == IF IsSome(r) THEN Some(Append(Unwrap(r), msg)) ELSE r

StreamInit ==
  /\ adapters = [k \in KeySet |-> [active |-> FALSE]]
  /\ disabled = {"demo"}
  /\ sinks = <<>>
  /\ casts = [manager |-> FALSE, status |-> 0, sinks |-> 0]
  /\ receivers = [status |-> None, sinks |-> None]
  /\ client = [pc |-> "none", status |-> None, sinks |-> None,
               initial |-> <<>>, inner |-> "Left", outer |-> "Left",
               got |-> <<>>]
  /\ ops = 0
  /\ toggled = None
  /\ cycle = None
  /\ published = [status |-> Some(status_json(adapters, active_adapter, disabled)),
                  sinks |-> None]

\* --- detection_cycle ---
\* the loop's test of the disabled set
skipped_never(key, dis) == FALSE
skipped(key, dis) == key \in dis

\* the first adapter of the loop that is started, if any
started(det, ok) ==
  LET cand == {i \in 1 .. Len(Keys) :
                 /\ ~skipped(Keys[i], disabled)
                 /\ det[Keys[i]] /\ ~adapters[Keys[i]].active
                 /\ ok[Keys[i]]}
  IN IF cand = {} THEN None
     ELSE Some(Keys[CHOOSE i \in cand : \A j \in cand : i <= j])

\* the block under the write locks of adapters and active_adapter
DetectionCycle ==
  /\ ~casts.manager
  /\ \E det \in Answers, ok \in Answers :
       IF IsSome(active_adapter)
       THEN LET k == Unwrap(active_adapter) IN
            IF ~det[k]
            THEN /\ ops < MaxOps
                 /\ ops' = ops + 1
                 /\ adapters' = [adapters EXCEPT ![k].active = FALSE]
                 /\ active_adapter' = None
                 /\ casts' = [casts EXCEPT !.manager = TRUE]
                 /\ UNCHANGED cycle
            ELSE UNCHANGED <<adapters, active_adapter, casts, ops, cycle>>
       ELSE LET s == started(det, ok) IN
            IF IsSome(s)
            THEN /\ ops < MaxOps
                 /\ ops' = ops + 1
                 /\ adapters' = [adapters EXCEPT ![Unwrap(s)].active = TRUE]
                 /\ active_adapter' = s
                 /\ casts' = [casts EXCEPT !.manager = TRUE]
                 /\ cycle' = Some([det |-> det, ok |-> ok, dis |-> disabled,
                                   key |-> Unwrap(s)])
            ELSE UNCHANGED <<adapters, active_adapter, casts, ops, cycle>>
  /\ UNCHANGED <<disabled, sinks, receivers, client, toggled, published, notStream>>

\* broadcast_adapter_status, called by the manager after a change
DetectionBroadcast ==
  /\ casts.manager
  /\ casts' = [casts EXCEPT !.manager = FALSE]
  /\ receivers' = [receivers EXCEPT !.status =
              send_to(@, status_json(adapters, active_adapter, disabled))]
  /\ published' = [published EXCEPT !.status =
              Some(status_json(adapters, active_adapter, disabled))]
  /\ UNCHANGED <<adapters, active_adapter, disabled, sinks, client, ops,
                 toggled, cycle, notStream>>

\* --- toggle_adapter ---
\* the block under the three write locks
ToggleAdapter ==
  /\ ops < MaxOps
  /\ ops' = ops + 1
  /\ \E key \in KeySet \cup {"unknown"} :
       IF key \notin KeySet
       THEN UNCHANGED <<adapters, active_adapter, disabled, casts, toggled>>
       ELSE /\ casts' = [casts EXCEPT !.status = @ + 1]
            /\ IF key \notin disabled
               THEN LET is_active == adapters[key].active
                                       \/ active_adapter = Some(key) IN
                    /\ IF is_active
                       THEN /\ adapters' = [adapters EXCEPT ![key].active = FALSE]
                            /\ active_adapter' = None
                       ELSE UNCHANGED <<adapters, active_adapter>>
                    /\ disabled' = disabled \cup {key}
                    /\ toggled' = Some([key |-> key, disable |-> TRUE,
                                        stopped |-> is_active])
               ELSE /\ disabled' = disabled \ {key}
                    /\ toggled' = Some([key |-> key, disable |-> FALSE,
                                        stopped |-> FALSE])
                    /\ UNCHANGED <<adapters, active_adapter>>
  /\ UNCHANGED <<sinks, receivers, client, cycle, published, notStream>>

\* broadcast_adapter_status, after the locks of toggle_adapter are released
ToggleBroadcast ==
  /\ casts.status > 0
  /\ casts' = [casts EXCEPT !.status = @ - 1]
  /\ receivers' = [receivers EXCEPT !.status =
              send_to(@, status_json(adapters, active_adapter, disabled))]
  /\ published' = [published EXCEPT !.status =
              Some(status_json(adapters, active_adapter, disabled))]
  /\ UNCHANGED <<adapters, active_adapter, disabled, sinks, client, ops,
                 toggled, cycle, notStream>>

\* --- create_sink, delete_sink ---
CreateSink ==
  /\ ops < MaxOps
  /\ ops' = ops + 1
  /\ \E id \in SinkIdArgs :
       sinks' = Append(sinks, IF id = <<>> THEN sink_id(Len(sinks) + 1) ELSE id)
  /\ casts' = [casts EXCEPT !.sinks = @ + 1]
  /\ UNCHANGED <<adapters, active_adapter, disabled, receivers, client, toggled, cycle, published,
                 notStream>>

\* Vec::remove of the first configuration with the id
remove(v, pos) == SubSeq(v, 1, pos - 1) \o SubSeq(v, pos + 1, Len(v))

DeleteSink ==
  /\ ops < MaxOps
  /\ ops' = ops + 1
  /\ \E id \in {sink_id(n) : n \in 1 .. 2} :
       LET at == {i \in 1 .. Len(sinks) : sinks[i] = id} IN
       IF at = {}
       THEN UNCHANGED <<sinks, casts>>
       ELSE /\ sinks' = remove(sinks, CHOOSE i \in at : \A j \in at : i <= j)
            /\ casts' = [casts EXCEPT !.sinks = @ + 1]
  /\ UNCHANGED <<adapters, active_adapter, disabled, receivers, client, toggled, cycle, published,
                 notStream>>

\* broadcast_sinks
SinksBroadcast ==
  /\ casts.sinks > 0
  /\ casts' = [casts EXCEPT !.sinks = @ - 1]
  /\ receivers' = [receivers EXCEPT !.sinks = send_to(@, sinks)]
  /\ published' = [published EXCEPT !.sinks = Some(sinks)]
  /\ UNCHANGED <<adapters, active_adapter, disabled, sinks, client, ops,
                 toggled, cycle, notStream>>

\* --- unified_stream ---
\* an event of the stream; first tells the snapshots from the deltas
StreamEvent(topic, data, first) == [event |-> topic, data |-> data, first |-> first]

\* the block that builds initial_status_json
ConnectStatus ==
  /\ client.pc = "none"
  /\ client' = [client EXCEPT !.pc = "status",
                  !.status = Some(status_json(adapters, active_adapter, disabled))]
  /\ UNCHANGED <<adapters, active_adapter, disabled, sinks, casts, receivers, ops,
                 toggled, cycle, published, notStream>>

\* the block that builds initial_sinks_json
ConnectSinks ==
  /\ client.pc = "status"
  /\ client' = [client EXCEPT !.pc = "sinks", !.sinks = Some(sinks)]
  /\ UNCHANGED <<adapters, active_adapter, disabled, sinks, casts, receivers, ops,
                 toggled, cycle, published, notStream>>

\* state.status_tx.subscribe()
SubscribeStatus ==
  /\ client.pc = "sinks"
  /\ client' = [client EXCEPT !.pc = "status_rx"]
  /\ receivers' = [receivers EXCEPT !.status = Some(<<>>)]
  /\ UNCHANGED <<adapters, active_adapter, disabled, sinks, casts, ops,
                 toggled, cycle, published, notStream>>

\* state.sinks_tx.subscribe() and the merged stream with its initial events
SubscribeSinks ==
  /\ client.pc = "status_rx"
  /\ client' = [client EXCEPT !.pc = "streaming",
                  !.initial = <<StreamEvent("status", Unwrap(client.status), TRUE),
                                StreamEvent("sinks", Unwrap(client.sinks), TRUE)>>]
  /\ receivers' = [receivers EXCEPT !.sinks = Some(<<>>)]
  /\ UNCHANGED <<adapters, active_adapter, disabled, sinks, casts, ops,
                 toggled, cycle, published, notStream>>

\* PollNext::other
other(side) == IF side = "Left" THEN "Right" ELSE "Left"

\* futures::stream::select polls the side its flag names, then the other
select(first, left_ready, right_ready) ==
  IF first = "Left"
  THEN (IF left_ready THEN "Left" ELSE IF right_ready THEN "Right" ELSE "Pending")
  ELSE (IF right_ready THEN "Right" ELSE IF left_ready THEN "Left" ELSE "Pending")

\* one poll of merged: select(select(initial.chain(telemetry), status), sinks)
Poll ==
  /\ client.pc = "streaming"
  /\ LET status_q == Unwrap(receivers.status)
         sinks_q  == Unwrap(receivers.sinks)
         in_pick  == select(client.inner, client.initial # <<>>, status_q # <<>>)
         out_pick == select(client.outer, in_pick # "Pending", sinks_q # <<>>)
         in_polled == client.outer = "Left" \/ sinks_q = <<>>
         flags == [client EXCEPT !.outer = other(@),
                                 !.inner = IF in_polled THEN other(@) ELSE @]
     IN
     CASE out_pick = "Right" ->
            /\ client' = [flags EXCEPT !.got =
                            Append(@, StreamEvent("sinks", Head(sinks_q), FALSE))]
            /\ receivers' = [receivers EXCEPT !.sinks = Some(Tail(sinks_q))]
       [] out_pick = "Left" /\ in_pick = "Left" ->
            /\ client' = [flags EXCEPT !.got = Append(@, Head(client.initial)),
                                       !.initial = Tail(@)]
            /\ receivers' = receivers
       [] out_pick = "Left" /\ in_pick = "Right" ->
            /\ client' = [flags EXCEPT !.got =
                            Append(@, StreamEvent("status", Head(status_q), FALSE))]
            /\ receivers' = [receivers EXCEPT !.status = Some(Tail(status_q))]
       [] OTHER ->
            /\ client' = flags
            /\ receivers' = receivers
  /\ UNCHANGED <<adapters, active_adapter, disabled, sinks, casts, ops,
                 toggled, cycle, published, notStream>>

StreamNext ==
  \/ DetectionCycle
  \/ DetectionBroadcast
  \/ ToggleAdapter
  \/ ToggleBroadcast
  \/ CreateSink
  \/ DeleteSink
  \/ SinksBroadcast
  \/ ConnectStatus
  \/ ConnectSinks
  \/ SubscribeStatus
  \/ SubscribeSinks
  \/ Poll

(***************************************************************************)
(* The percentage fields (SpecUnits): Percentage::new as the replay        *)
(* normalizer and the demo adapter call it.  An f32 is NaN or a number of  *)
(* thousandths.                                                            *)
(***************************************************************************)
F32(v) == [nan |-> FALSE, v |-> v]
NaN == [nan |-> TRUE, v |-> 0]

\* the comparisons and the arithmetic of f32: every comparison with NaN is
\* false, every operation on NaN is NaN
lt(a, b) == ~a.nan /\ ~b.nan /\ a.v < b.v
div(a, n) == IF a.nan THEN NaN ELSE F32(a.v \div n)
f32_max(a, b) == IF a.nan THEN b ELSE IF b.nan THEN a ELSE IF lt(a, b) THEN b ELSE a

\* f32::clamp: x < min gives min, x > max gives max, anything else is x
f32_clamp(x, min, max) == IF lt(x, min) THEN min ELSE IF lt(max, x) THEN max ELSE x

\* Percentage::new
new(value) == f32_clamp(value, F32(0), F32(1000))

\* VarValue and the conversion as_f32
VarFloat(v) == [tag |-> "Float", f |-> v]
VarInt(i) == [tag |-> "Int", i |-> i]
VarBool(b) == [tag |-> "Bool", b |-> b]
VarString == [tag |-> "String"]
as_f32(val) ==
  CASE val.tag = "Float" -> Some(val.f)
    [] val.tag = "Int" -> Some(F32(1000 * val.i))
    [] val.tag = "Bool" -> Some(IF val.b THEN F32(1000) ELSE F32(0))
    [] OTHER -> None

\* the variables of a sample the normalizer turns into percentages here, and
\* the values a file can hold for them
PctVars == {"Throttle", "RelativeHumidity", "FuelLevelPct"}
VarValues ==
  {VarFloat(NaN), VarFloat(F32(-500)), VarFloat(F32(0)), VarFloat(F32(500)),
   VarFloat(F32(1000)), VarFloat(F32(1500)), VarInt(0), VarInt(2), VarBool(TRUE), VarString}

\* Option::map
map(o, Fn(_)) == IF IsSome(o) THEN Some(Fn(Unwrap(o))) ELSE None

\* the closure get_f32 of sample_to_frame
get_f32(smp, name) == IF IsSome(smp[name]) THEN as_f32(Unwrap(smp[name])) ELSE None

\* the percentage fields sample_to_frame builds from the three variables
humidity_of(h) == new(div(h, 100))
sample_to_frame(smp) ==
  [throttle       |-> map(get_f32(smp, "Throttle"), new),
   humidity       |-> map(get_f32(smp, "RelativeHumidity"), humidity_of),
   fuel_level_pct |-> map(get_f32(smp, "FuelLevelPct"), new)]

\* the same fields of DemoAdapter::generate_frame after elapsed seconds, with
\* the throttle of the track position and its jitter
DemoElapsed == {0, 2000, 8000}
DemoThrottles == {F32(-20), F32(0), F32(750), F32(1020)}
generate_frame(elapsed, throttle_in) ==
  LET throttle == f32_clamp(throttle_in, F32(0), F32(1000))
      fuel_remaining == f32_max(F32(60 * (1000 - (elapsed * 15) \div 100)), F32(0))
  IN [throttle       |-> Some(new(throttle)),
      humidity       |-> Some(new(F32(550))),
      fuel_level_pct |-> Some(new(div(fuel_remaining, 60)))]

UnitsInit ==
  /\ sample \in [PctVars -> {None} \cup {Some(v) : v \in VarValues}]
  /\ produced = None

\* TelemetryFrame built from a sample of the recording
SampleToFrame ==
  /\ produced' = Some([by |-> "replay", pct |-> sample_to_frame(sample)])
  /\ UNCHANGED <<sample, notUnits>>

\* TelemetryFrame built by the demo adapter
GenerateFrame ==
  /\ \E elapsed \in DemoElapsed, t \in DemoThrottles :
       produced' = Some([by |-> "demo", pct |-> generate_frame(elapsed, t)])
  /\ UNCHANGED <<sample, notUnits>>

UnitsNext ==
  \/ SampleToFrame
  \/ GenerateFrame

(***************************************************************************)
(* The normalizer's sections and extras (SpecNormalizer): which variables  *)
(* of a sample sample_to_frame reads into a section and which it emits in  *)
(* extras.  A name is the sequence of its parts ("LF" "wear", "CarIdx"     *)
(* "Lap", "Speed"), so that format! and starts_with act on it.             *)
(***************************************************************************)
\* the corners extract_wheel is called for
WheelPrefixes == {"LF", "RF", "LR", "RR"}
CarIdx == <<"CarIdx">>

\* IbtFile::MAPPED_VARS: the per-wheel names, the per-car arrays, the rest
MappedWheelSuffixes ==
  {"shockDefl", "shockDeflST", "shockVel", "shockVelST", "rideHeight",
   "airPressure", "coldPressure", "tempCL", "tempCC", "tempCR", "tempL",
   "tempM", "tempR", "wear", "speed", "brakeLinePress"}
MappedCarIdx ==
  {"Lap", "LapCompleted", "LapDistPct", "Position", "ClassPosition",
   "OnPitRoad", "TrackSurface", "BestLapTime", "LastLapTime", "EstTime",
   "Gear", "RPM", "Steer"}
MAPPED_VARS ==
  {<<p, x>> : p \in WheelPrefixes, x \in MappedWheelSuffixes}
  \cup {CarIdx \o <<x>> : x \in MappedCarIdx}
  \cup {
   <<"VelocityX">>, <<"VelocityY">>, <<"VelocityZ">>, <<"LatAccel">>,
   <<"LongAccel">>, <<"VertAccel">>, <<"Pitch">>, <<"Yaw">>, <<"Roll">>,
   <<"PitchRate">>, <<"YawRate">>, <<"RollRate">>, <<"Speed">>, <<"RPM">>,
   <<"Gear">>, <<"Throttle">>, <<"Brake">>, <<"Clutch">>,
   <<"SteeringWheelAngle">>, <<"SteeringWheelTorque">>,
   <<"SteeringWheelPctTorque">>, <<"IsOnTrack">>, <<"IsInGarage">>,
   <<"PlayerTrackSurface">>, <<"WaterTemp">>, <<"OilTemp">>,
   <<"OilPress">>, <<"OilLevel">>, <<"FuelLevel">>, <<"FuelLevelPct">>,
   <<"FuelPress">>, <<"FuelUsePerHour">>, <<"Voltage">>,
   <<"ManifoldPress">>, <<"EngineWarnings">>, <<"LapCurrentLapTime">>,
   <<"LapLastLapTime">>, <<"LapBestLapTime">>, <<"LapBestNLapTime">>,
   <<"LapBestNLapLap">>, <<"Lap">>, <<"LapCompleted">>, <<"LapDist">>,
   <<"LapDistPct">>, <<"PlayerCarPosition">>,
   <<"PlayerCarClassPosition">>, <<"LapDeltaToBestLap">>,
   <<"LapDeltaToBestLap_OK">>, <<"LapDeltaToSessionBestLap">>,
   <<"LapDeltaToSessionBestLap_OK">>, <<"LapDeltaToOptimalLap">>,
   <<"LapDeltaToOptimalLap_OK">>, <<"RaceLaps">>, <<"SessionState">>,
   <<"SessionTime">>, <<"SessionTimeRemain">>, <<"SessionTimeOfDay">>,
   <<"SessionLapsRemainEx">>, <<"SessionFlags">>, <<"SessionNum">>,
   <<"AirTemp">>, <<"TrackTempCrew">>, <<"AirPressure">>,
   <<"AirDensity">>, <<"RelativeHumidity">>, <<"WindVel">>, <<"WindDir">>,
   <<"FogLevel">>, <<"Precipitation">>, <<"TrackWetness">>, <<"Skies">>,
   <<"WeatherDeclaredWet">>, <<"OnPitRoad">>, <<"PitstopActive">>,
   <<"PlayerCarPitSvStatus">>, <<"PitRepairLeft">>,
   <<"PitOptRepairLeft">>, <<"FastRepairAvailable">>,
   <<"FastRepairUsed">>, <<"dpFuelFill">>, <<"dpFuelAddKg">>,
   <<"dpLFTireChange">>, <<"dpRFTireChange">>, <<"dpLRTireChange">>,
   <<"dpRRTireChange">>, <<"dpLFTireColdPress">>, <<"dpRFTireColdPress">>,
   <<"dpLRTireColdPress">>, <<"dpRRTireColdPress">>,
   <<"dpWindshieldTearoff">>, <<"dpFastRepair">>, <<"dcABS">>,
   <<"dcTractionControl">>, <<"dcTractionControl2">>, <<"dcBrakeBias">>,
   <<"dcAntiRollFront">>, <<"dcAntiRollRear">>, <<"DRS_Status">>,
   <<"dcThrottleShape">>, <<"PushToPass">>, <<"SessionTick">>}

\* the suffixes extract_wheel looks up: format!("{}{}", prefix, suffix)
WheelSuffixes ==
  {"tempCR", "tempCL", "tempR", "tempL", "shockDefl", "shockDeflST",
   "shockVel", "shockVelST", "rideHeight", "pressure", "coldPressure",
   "tempCM", "tempM", "wearL", "speed", "brakeLinePress"}
extract_wheel(prefix) == {<<prefix>> \o <<suffix>> : suffix \in WheelSuffixes}

\* the names the section readers of sample_to_frame look up
SectionReads ==
  UNION {extract_wheel(p) : p \in WheelPrefixes}
  \cup {
   <<"SessionTick">>, <<"VelocityX">>, <<"VelocityY">>, <<"VelocityZ">>,
   <<"LatAccel">>, <<"LongAccel">>, <<"VertAccel">>, <<"Pitch">>,
   <<"Yaw">>, <<"Roll">>, <<"PitchRate">>, <<"YawRate">>, <<"RollRate">>,
   <<"Speed">>, <<"PlayerTrackSurface">>, <<"RPM">>, <<"Gear">>,
   <<"Throttle">>, <<"Brake">>, <<"Clutch">>, <<"SteeringWheelAngle">>,
   <<"SteeringWheelTorque">>, <<"SteeringWheelPctTorque">>,
   <<"IsOnTrack">>, <<"IsInGarage">>, <<"EngineWarnings">>,
   <<"WaterTemp">>, <<"OilTemp">>, <<"OilPress">>, <<"OilLevel">>,
   <<"FuelLevel">>, <<"FuelLevelPct">>, <<"FuelPress">>,
   <<"FuelUsePerHour">>, <<"Voltage">>, <<"ManifoldPress">>,
   <<"LapCurrentLapTime">>, <<"LapLastLapTime">>, <<"LapBestLapTime">>,
   <<"LapBestNLapTime">>, <<"LapBestNLapLap">>, <<"Lap">>,
   <<"LapCompleted">>, <<"LapDist">>, <<"LapDistPct">>,
   <<"PlayerCarPosition">>, <<"PlayerCarClassPosition">>,
   <<"LapDeltaToBestLap">>, <<"LapDeltaToBestLap_OK">>,
   <<"LapDeltaToSessionBestLap">>, <<"LapDeltaToSessionBestLap_OK">>,
   <<"LapDeltaToOptimalLap">>, <<"LapDeltaToOptimalLap_OK">>,
   <<"SessionState">>, <<"SessionFlags">>, <<"SessionTime">>,
   <<"SessionTimeRemain">>, <<"SessionTimeOfDay">>,
   <<"SessionLapsRemainEx">>, <<"AirTemp">>, <<"TrackTempCrew">>,
   <<"AirPressure">>, <<"AirDensity">>, <<"RelativeHumidity">>,
   <<"WindVel">>, <<"WindDir">>, <<"FogLevel">>, <<"Skies">>,
   <<"dpFuelFill">>, <<"dpLFTireChange">>, <<"dpRFTireChange">>,
   <<"dpLRTireChange">>, <<"dpRRTireChange">>, <<"dpWindshieldTearoff">>,
   <<"dpFastRepair">>, <<"dpLFTireColdPress">>, <<"dpRFTireColdPress">>,
   <<"dpLRTireColdPress">>, <<"dpRRTireColdPress">>, <<"OnPitRoad">>,
   <<"PitstopActive">>, <<"PlayerCarPitSvStatus">>, <<"PitRepairLeft">>,
   <<"PitOptRepairLeft">>, <<"FastRepairAvailable">>,
   <<"FastRepairUsed">>, <<"dcABS">>, <<"dcTractionControl">>,
   <<"dcBrakeBias">>, <<"DRS_Status">>}

\* the extras loop: every variable that is not in the mapped set and does not
\* start with CarIdx, under the key iracing/<name>
extras_of(smp) ==
  {<<"iracing/">> \o name :
     name \in {n \in smp : n \notin MAPPED_VARS /\ ~starts_with(n, CarIdx)}}

\* the names a recording can hold here: mapped and read, mapped and not
\* read, read and not mapped, per-car arrays, and names the model ignores
SampleNames ==
  {<<"Speed">>, <<"Throttle">>, <<"SessionTick">>, <<"FogLevel">>,
   <<"SessionNum">>, <<"Precipitation">>, <<"PushToPass">>,
   <<"LF", "speed">>, <<"RR", "tempCL">>, <<"LF", "wear">>,
   <<"LF", "wearL">>, <<"RF", "pressure">>, <<"LR", "tempCM">>,
   <<"LF", "airPressure">>, <<"LF", "tempCC">>,
   <<"CarIdx", "Lap">>, <<"CarIdx", "F2Time">>,
   <<"SteeringWheelPeakForceNm">>, <<"LF", "wearM">>, <<"PlayerCarIdx">>}

NormInit ==
  /\ raw \in {smp \in SUBSET SampleNames : Cardinality(smp) <= MaxVars}
  /\ normalized = None

\* sample_to_frame: the variables read into the sections, the extras, and
\* competitors, which is always None
NormalizeSample ==
  /\ normalized' = Some([sections    |-> raw \cap SectionReads,
                         competitors |-> None,
                         extras      |-> extras_of(raw)])
  /\ UNCHANGED <<raw, notNorm>>

NormNext == NormalizeSample

(***************************************************************************)
(* The session YAML (SpecYaml): IbtSessionInfo::from_yaml.  A line is a    *)
(* sequence of characters; a key with its colon is one character.          *)
(***************************************************************************)
\* the keys from_yaml looks for, in the order of its else-if chain
YamlKeys == <<"TrackName:", "TrackDisplayName:", "TrackConfigName:",
              "TrackLength:", "CarScreenName:", "UserName:", "DriverCarIdx:",
              "SessionType:">>
YamlKeySet == {YamlKeys[i] : i \in 1 .. Len(YamlKeys)}

\* the longest session YAML, in lines
MaxLines == 2

\* the values a line carries after its key
YamlValues == {<<>>, <<"a">>, <<"5">>, <<"7">>}
\* the lines of the session YAML: an indented key and its value, or a line
\* without a recognized key
YamlLines ==
  {<<" ", k, " ">> \o v : k \in YamlKeySet, v \in YamlValues} \cup {<<"Drivers:">>}

\* line.strip_prefix(key).map(|rest| rest.trim().to_string())
try_extract_yaml_value(line, key) ==
  IF line # <<>> /\ line[1] = key THEN Some(trim(Tail(line))) ELSE None

\* val.parse::<i32>()
DigitValue == ("5" :> 5) @@ ("7" :> 7)
parse_i32(val) ==
  IF Len(val) = 1 /\ val[1] \in DOMAIN DigitValue THEN Some(DigitValue[val[1]])
  ELSE None

\* IbtSessionInfo::default()
default_info ==
  [track_name |-> <<>>, track_display_name |-> <<>>, track_config_name |-> <<>>,
   track_length |-> <<>>, car_name |-> <<>>, car_screen_name |-> <<>>,
   driver_name |-> <<>>, driver_car_idx |-> 0, session_type |-> <<>>]

\* the assignment to a field that is kept once it is not empty
set_if_empty(inf, field, val) ==
  IF inf[field] = <<>> THEN [inf EXCEPT ![field] = val] ELSE inf

\* the body of the loop over yaml.lines()
yaml_line(inf, line) ==
  LET trimmed == trim(line)
      val(key) == try_extract_yaml_value(trimmed, key)
  IN IF IsSome(val("TrackName:"))
       THEN [inf EXCEPT !.track_name = Unwrap(val("TrackName:"))]
     ELSE IF IsSome(val("TrackDisplayName:"))
       THEN [inf EXCEPT !.track_display_name = Unwrap(val("TrackDisplayName:"))]
     ELSE IF IsSome(val("TrackConfigName:"))
       THEN [inf EXCEPT !.track_config_name = Unwrap(val("TrackConfigName:"))]
     ELSE IF IsSome(val("TrackLength:"))
       THEN [inf EXCEPT !.track_length = Unwrap(val("TrackLength:"))]
     ELSE IF IsSome(val("CarScreenName:"))
       THEN set_if_empty(inf, "car_screen_name", Unwrap(val("CarScreenName:")))
     ELSE IF IsSome(val("UserName:"))
       THEN set_if_empty(inf, "driver_name", Unwrap(val("UserName:")))
     ELSE IF IsSome(val("DriverCarIdx:"))
       THEN (LET idx == parse_i32(Unwrap(val("DriverCarIdx:")))
             IN IF IsSome(idx) THEN [inf EXCEPT !.driver_car_idx = Unwrap(idx)]
                ELSE inf)
     ELSE IF IsSome(val("SessionType:"))
       THEN set_if_empty(inf, "session_type", Unwrap(val("SessionType:")))
     ELSE inf

RECURSIVE yaml_lines(_, _)
yaml_lines(inf, lines) ==
  IF lines = <<>> THEN inf
  ELSE yaml_lines(yaml_line(inf, Head(lines)), Tail(lines))

from_yaml(text) ==
  LET scanned == yaml_lines(default_info, text)
      named == IF scanned.track_display_name = <<>>
               THEN [scanned EXCEPT !.track_display_name = scanned.track_name]
               ELSE scanned
  IN [named EXCEPT !.car_name = named.car_screen_name]

YamlInit ==
  /\ yaml \in UNION {[1 .. n -> YamlLines] : n \in 0 .. MaxLines}
  /\ session_info = None

FromYaml ==
  /\ session_info = None
  /\ session_info' = Some(from_yaml(yaml))
  /\ UNCHANGED <<yaml, notYaml>>

YamlNext == FromYaml

(***************************************************************************)
(* The locks of AppState (SpecLocks): every task is the sequence of lock   *)
(* requests and guard drops its code makes.  A tokio RwLock queues its     *)
(* requests in arrival order: a request is granted at once only when no    *)
(* request waits and the guards that exist allow it.                       *)
(***************************************************************************)
Locks == {"adapters", "active_adapter", "disabled_adapters", "sinks", "replay",
          "replay_cancel"}

\* the tasks that run beside the manager: each is a handler or the
\* playback task
MaxHandlers == 2
Tasks == {<<"manager", 0>>} \cup {<<"handler", i>> : i \in 1 .. MaxHandlers}

\* lock.read().await and lock.write().await, and the end of the scope (or
\* the drop calls) that drops every guard the task holds
read(lock) == [op |-> "acquire", lock |-> lock, mode |-> "read"]
write(lock) == [op |-> "acquire", lock |-> lock, mode |-> "write"]
drop == [op |-> "drop", lock |-> "", mode |-> ""]

\* the three locks of the adapters, in the order toggle_adapter writes them
\* (and in the opposite order, which the code does not use)
toggle_order_reversed == <<"disabled_adapters", "active_adapter", "adapters">>
toggle_order == <<"adapters", "active_adapter", "disabled_adapters">>

broadcast_adapter_status ==
  <<read("adapters"), read("active_adapter"), read("disabled_adapters"), drop>>

broadcast_sinks == <<read("sinks"), drop>>

\* detection_cycle: the slot is occupied (the adapter is stopped, and the
\* status broadcast, or not), or it is empty (an adapter is started, and the
\* status broadcast, or not)
detection_cycle ==
  LET occupied == <<write("adapters"), write("active_adapter"), drop>>
      empty == <<write("adapters"), write("active_adapter"),
                 read("disabled_adapters"), drop>>
  IN {occupied, occupied \o broadcast_adapter_status,
      empty, empty \o broadcast_adapter_status}

\* frame_read_cycle: a replay is loaded, no adapter is active, or a frame
\* is read
frame_read_cycle ==
  LET check == <<read("replay"), drop>>
      key == <<read("active_adapter"), drop>>
  IN {check, check \o key, check \o key \o <<write("adapters"), drop>>}

\* the blocks of the handlers and of the playback task that hold locks.  A
\* task holds no lock between two of its blocks, so it runs blocks one
\* after the other: the playback task is the snapshot block (replay.read)
\* and then the emit block (replay.write),
\* toggle_adapter is its block and then broadcast_adapter_status,
\* unified_stream the status block and then the sinks block, create_sink
\* and delete_sink the write block and then broadcast_sinks, replay_upload
\* the check, the install and the two blocks of start_playback_task,
\* replay_control its block and for play start_playback_task, replay_delete
\* the cancel block and then the replay block.
toggle_adapter == [i \in 1 .. 3 |-> write(toggle_order[i])] \o <<drop>>
Handlers ==
  {toggle_adapter, broadcast_adapter_status, broadcast_sinks,
   <<write("sinks"), drop>>,
   <<read("replay"), drop>>, <<write("replay"), drop>>,
   <<write("replay_cancel"), drop>>, <<read("replay_cancel"), drop>>}

\* what a task runs next: the manager alternates its two cycles
Programs(t, phase) ==
  IF t[1] = "manager"
  THEN (IF phase = "detection" THEN detection_cycle ELSE frame_read_cycle)
  ELSE Handlers

next_phase(phase) == IF phase = "detection" THEN "frame" ELSE "detection"

LocksInit ==
  /\ held = [l \in Locks |-> {}]
  /\ waiters = [l \in Locks |-> <<>>]
  /\ tasks = [t \in Tasks |-> [ops |-> <<>>, phase |-> "frame"]]

\* the guards that exist allow a request of the mode
available(lock, mode) ==
  IF mode = "read" THEN \A g \in held[lock] : g[2] = "read"
  ELSE held[lock] = {}

InQueue(t, lock) == \E i \in 1 .. Len(waiters[lock]) : waiters[lock][i][1] = t

\* the task begins its next cycle, iteration or request
Begin(t) ==
  /\ tasks[t].ops = <<>>
  /\ \E prog \in Programs(t, next_phase(tasks[t].phase)) :
       tasks' = [tasks EXCEPT ![t] = [ops |-> prog, phase |-> next_phase(@.phase)]]
  /\ UNCHANGED <<held, waiters, notLocks>>

\* the task polls read() or write() for the first time
Request(t) ==
  /\ tasks[t].ops # <<>>
  /\ LET o == Head(tasks[t].ops) IN
     /\ o.op = "acquire" /\ ~InQueue(t, o.lock)
     /\ IF waiters[o.lock] = <<>> /\ available(o.lock, o.mode)
        THEN /\ held' = [held EXCEPT ![o.lock] = @ \cup {<<t, o.mode>>}]
             /\ tasks' = [tasks EXCEPT ![t].ops = Tail(@)]
             /\ UNCHANGED waiters
        ELSE /\ waiters' = [waiters EXCEPT ![o.lock] = Append(@, <<t, o.mode>>)]
             /\ UNCHANGED <<held, tasks>>
  /\ UNCHANGED notLocks

\* the request at the head of the queue is granted
Granted(t) ==
  /\ tasks[t].ops # <<>>
  /\ LET o == Head(tasks[t].ops) IN
     /\ o.op = "acquire"
     /\ waiters[o.lock] # <<>> /\ Head(waiters[o.lock])[1] = t
     /\ available(o.lock, o.mode)
     /\ held' = [held EXCEPT ![o.lock] = @ \cup {<<t, o.mode>>}]
     /\ waiters' = [waiters EXCEPT ![o.lock] = Tail(@)]
     /\ tasks' = [tasks EXCEPT ![t].ops = Tail(@)]
  /\ UNCHANGED notLocks

\* the guards of the task are dropped
Drop(t) ==
  /\ tasks[t].ops # <<>>
  /\ Head(tasks[t].ops).op = "drop"
  /\ held' = [l \in Locks |-> {g \in held[l] : g[1] # t}]
  /\ tasks' = [tasks EXCEPT ![t].ops = Tail(@)]
  /\ UNCHANGED <<waiters, notLocks>>

Run(t) == Begin(t) \/ Request(t) \/ Granted(t) \/ Drop(t)

LocksNext ==
  \/ \E t \in Tasks : Begin(t)
  \/ \E t \in Tasks : Request(t)
  \/ \E t \in Tasks : Granted(t)
  \/ \E t \in Tasks : Drop(t)

(***************************************************************************)
(* Initial states of the parts a specification leaves alone.               *)
(***************************************************************************)
\* no frame is being serialized
JsonIdle == frame = None /\ mask = None /\ json = None

EngineIdle == engine = from_file(0, 0) /\ hist = <<>> /\ prev = engine /\ ret = None

\* no mask is being constructed
MaskIdle ==
  /\ entries = <<>> /\ expr = <<>> /\ path = <<>>
  /\ built = None /\ included = None

\* no recording file is being parsed
IbtIdle == ibt_file = None /\ ibt = None /\ ibt_ret = None

\* no frames-range request was answered
FramesIdle == frames_resp = None

\* no sample was read and no frame produced
UnitsIdle == sample = [n \in PctVars |-> None] /\ produced = None

\* no sample was normalized
NormIdle == raw = {} /\ normalized = None

\* no session YAML was parsed
YamlIdle == yaml = <<>> /\ session_info = None

\* no lock is held and no task has begun
LateIdle == YamlIdle /\ LocksInit

RestIdle == MaskIdle /\ IbtIdle /\ FramesIdle /\ StreamInit /\ UnitsIdle
              /\ NormIdle /\ LateIdle
CoreIdle == EngineIdle /\ ServerInit /\ BusInit /\ JsonIdle

SpecEngineInit == EngineInit /\ ServerInit /\ BusInit /\ JsonIdle /\ RestIdle
SpecEngine == SpecEngineInit /\ [][EngineNext]_vars

SpecServerInit == ServerInit /\ EngineIdle /\ BusInit /\ JsonIdle /\ RestIdle
SpecServer == SpecServerInit /\ [][ServerNext]_vars

SpecLiveInit == LiveInit /\ EngineIdle /\ BusInit /\ JsonIdle /\ RestIdle
SpecLive == SpecLiveInit /\ [][LiveNext]_vars

SpecBusInit == BusInit /\ EngineIdle /\ ServerInit /\ JsonIdle /\ RestIdle
SpecBus == SpecBusInit /\ [][BusNext]_vars

SpecJsonInit == JsonInit /\ EngineIdle /\ ServerInit /\ BusInit /\ RestIdle
SpecJson == SpecJsonInit /\ [][JsonNext]_vars

SpecMaskInit == MaskInit /\ CoreIdle /\ IbtIdle /\ FramesIdle /\ StreamInit
                  /\ UnitsIdle /\ NormIdle /\ LateIdle
SpecMask == SpecMaskInit /\ [][MaskNext]_vars

SpecIbtInit == IbtInit /\ CoreIdle /\ MaskIdle /\ FramesIdle /\ StreamInit
                 /\ UnitsIdle /\ NormIdle /\ LateIdle
SpecIbt == SpecIbtInit /\ [][IbtNext]_vars

SpecFramesInit == CoreIdle /\ RestIdle
SpecFrames == SpecFramesInit /\ [][FramesNext]_vars

SpecStreamInit == CoreIdle /\ RestIdle
SpecStream == SpecStreamInit /\ [][StreamNext]_vars

SpecUnitsInit == UnitsInit /\ CoreIdle /\ MaskIdle /\ IbtIdle /\ FramesIdle
                   /\ StreamInit /\ NormIdle /\ LateIdle
SpecUnits == SpecUnitsInit /\ [][UnitsNext]_vars

SpecNormalizerInit == NormInit /\ CoreIdle /\ MaskIdle /\ IbtIdle /\ FramesIdle
                        /\ StreamInit /\ UnitsIdle /\ LateIdle
SpecNormalizer == SpecNormalizerInit /\ [][NormNext]_vars

SpecYamlInit == YamlInit /\ CoreIdle /\ MaskIdle /\ IbtIdle /\ FramesIdle
                  /\ StreamInit /\ UnitsIdle /\ NormIdle /\ LocksInit
SpecYaml == SpecYamlInit /\ [][YamlNext]_vars

\* the runtime schedules every task that can run: each task takes its steps
SpecLocksInit == CoreIdle /\ RestIdle
SpecLocks ==
  SpecLocksInit /\ [][LocksNext]_vars /\ \A t \in Tasks : WF_vars(Run(t))

(***************************************************************************)
(* The playback cursor (SpecEngine).                                       *)
(***************************************************************************)
LastCall == hist[Len(hist)]
Called(op) == hist # <<>> /\ LastCall.op = op

SpeedInRange(rs) == SpeedMin <= rs.playback_speed /\ rs.playback_speed <= SpeedMax

\* C1, as stated: in every state reached by play, pause, seek, set_speed and
\* advance calls on a loaded engine 0 <= current_frame < total_frames and
\* 0.1 <= speed <= 16.0; seek(f) with f >= total_frames stores
\* total_frames - 1, set_speed(0) stores 0.1 and set_speed(100) stores 16.
\* It fails on a recording of no records, which from_file loads with
\* current_frame = total_frames = 0.
C1_CursorBelowTotal ==
  /\ 0 <= engine.current_frame /\ engine.current_frame < engine.total_frames
  /\ SpeedInRange(engine)
  /\ Called("seek") /\ LastCall.arg >= engine.total_frames
       => engine.current_frame = engine.total_frames - 1
  /\ Called("set_speed") /\ LastCall.arg = 0 => engine.playback_speed = SpeedMin
  /\ Called("set_speed") /\ LastCall.arg = 1000 => engine.playback_speed = SpeedMax

\* C1, amended: in every such state 0.1 <= speed <= 16.0 and
\* 0 <= current_frame <= max(total_frames, 1) - 1, that is
\* current_frame < total_frames for every recording that has a record and
\* current_frame = 0 for one that has none; seek(f) with f >= total_frames
\* stores that last position, set_speed(0) stores 0.1 and set_speed(100)
\* stores 16.
C1_CursorInRange ==
  /\ 0 <= engine.current_frame
  /\ engine.current_frame <= Max(engine.total_frames, 1) - 1
  /\ engine.total_frames > 0 => engine.current_frame < engine.total_frames
  /\ SpeedInRange(engine)
  /\ Called("seek") /\ LastCall.arg >= engine.total_frames
       => engine.current_frame = Max(engine.total_frames, 1) - 1
  /\ Called("set_speed") /\ LastCall.arg = 0 => engine.playback_speed = SpeedMin
  /\ Called("set_speed") /\ LastCall.arg = 1000 => engine.playback_speed = SpeedMax

\* a seek past the end of a full-length recording, after a set_speed(100)
C1_Witness ==
  /\ Called("seek") /\ LastCall.arg > engine.total_frames
  /\ engine.total_frames = MaxFrames
  /\ engine.current_frame = MaxFrames - 1
  /\ engine.playback_speed = SpeedMax

\* C2, as stated: advance() returns absent, leaves the cursor unchanged and
\* leaves playing = false whenever the engine is paused or the cursor is at
\* total_frames - 1; in every other state it increments the cursor by one,
\* returns the new cursor and leaves playing = true; seek(k); pause();
\* advance() returns absent with the cursor still at k.  It fails on a
\* playing engine with no records: the cursor 0 is not total_frames - 1, and
\* advance() returns absent.
C2_AdvanceAtLastIndex ==
  /\ Called("advance") =>
       IF ~prev.playing \/ prev.current_frame = prev.total_frames - 1
       THEN /\ ret = None
            /\ engine.current_frame = prev.current_frame
            /\ ~engine.playing
       ELSE /\ engine.current_frame = prev.current_frame + 1
            /\ ret = Some(engine.current_frame)
            /\ engine.playing
  /\ ( /\ Len(hist) = 3
       /\ hist[1].op = "seek" /\ hist[2].op = "pause" /\ hist[3].op = "advance"
       /\ hist[1].arg < engine.total_frames )
       => ret = None /\ engine.current_frame = hist[1].arg

\* C2, amended: advance() returns absent, leaves the cursor unchanged and
\* leaves playing = false whenever the engine is paused or the cursor is at
\* the last position, which is total_frames - 1 and, for a recording of no
\* records, 0; in every other state it increments the cursor by one, returns
\* the new cursor and leaves playing = true; seek(k); pause(); advance()
\* returns absent with the cursor still at k.
C2_AdvanceAtLastPosition ==
  /\ Called("advance") =>
       IF ~prev.playing \/ prev.current_frame = Max(prev.total_frames, 1) - 1
       THEN /\ ret = None
            /\ engine.current_frame = prev.current_frame
            /\ ~engine.playing
       ELSE /\ engine.current_frame = prev.current_frame + 1
            /\ ret = Some(engine.current_frame)
            /\ engine.playing
  /\ ( /\ Len(hist) = 3
       /\ hist[1].op = "seek" /\ hist[2].op = "pause" /\ hist[3].op = "advance"
       /\ hist[1].arg < engine.total_frames )
       => ret = None /\ engine.current_frame = hist[1].arg

\* seek(1); pause(); advance() was called, and before it an advance that
\* moved the cursor
C2_Witness ==
  /\ Len(hist) = 3
  /\ hist[1].op = "seek" /\ hist[1].arg = 1
  /\ hist[2].op = "pause" /\ hist[3].op = "advance"
  /\ engine.total_frames > 1
  /\ engine.current_frame = 1 /\ ret = None

(***************************************************************************)
(* The driver task and the handlers (SpecServer, SpecLive).                *)
(***************************************************************************)
\* task d hands a frame to the bus in this step
Sends(d) == drivers[d].pc = "send" /\ drivers'[d].pc # "send"
\* task d reads the cursor and advances the engine in this step
Emits(d) == drivers[d].pc = "emit" /\ drivers'[d].pc \in {"send", "sleep"}

C4_NoFrameAfterEnd ==
  [][\A d \in DOMAIN drivers :
       (Sends(d) /\ ended.on) => (d = ended.by /\ ~ended.final_sent)]_vars

\* C5: once a play or upload request has replaced the driver (cancelled the
\* old token and spawned a new task), the replaced driver publishes no further
\* frame and performs no further advance: only the task spawned last does.
C5_ReplacedDriverIsSilent ==
  [][\A d \in DOMAIN drivers :
       (Sends(d) \/ Emits(d)) => d = Len(drivers)]_vars

\* C6: an upload never replaces a loaded replay: an upload arriving while a
\* replay is loaded goes no further than the check, and a step of an upload
\* taken while the replay of another upload is loaded does nothing but fail
\* with Conflict, leaving the engine, its cursor and its temp file unchanged.
C6_UploadNeverReplaces ==
  [][IsSome(replay) =>
       /\ \A r \in reqs' \ reqs : ~(r.kind = "upload" /\ r.pc = "parse")
       /\ \A r \in reqs \ reqs' :
            (r.kind = "upload" /\ Unwrap(replay).gen # r.id)
              => /\ replay' = replay
                 /\ temp_file' = temp_file
                 /\ resp' = Resp("upload", "CONFLICT")]_vars

\* C7: no frame read from a live adapter is sent on the bus while a replay is
\* loaded.
C7_NoLiveFrameDuringReplay ==
  [][(manager.pc = "read" /\ manager'.pc = "idle" /\ manager'.out = "frame")
       => ~IsSome(replay)]_vars

(***************************************************************************)
(* The frame bus (SpecBus).                                                *)
(***************************************************************************)
Last(q) == q[Len(q)]

\* how many frames receiver s has not read
Behind(s) == chan.pos - subs[s].next

\* the capacity of the ring
Capacity == Len(chan.buffer)

\* receiver s gets an item of its stream in this step
Receives(s) ==
  /\ subs[s].st = "open" /\ subs'[s].st = "open"
  /\ subs'[s].next # subs[s].next

\* a publisher calls tx.send in this step
Publishes == chan'.sent = chan.sent + 1

\* C8: each subscriber receives a subsequence of the frames published after
\* it subscribed, in publication order: no frame published before its
\* subscription, no frame twice, no two frames in the reverse of their
\* publication order.
C8_SubsequenceAfterSubscribe ==
  \A s \in Subscribers :
    LET got == subs[s].got IN
    \A i \in 1 .. Len(got) :
      /\ got[i] > subs[s].since
      /\ got[i] <= chan.sent
      /\ \A j \in 1 .. Len(got) : i < j => got[i] < got[j]

\* a subscriber that subscribed after a publication and has received the two
\* frames published next, while another subscriber has received other frames
C8_Witness ==
  \E s, t \in Subscribers :
    /\ subs[s].since >= 1
    /\ Len(subs[s].got) >= 2
    /\ subs[s].got[1] = subs[s].since + 1
    /\ subs[t].got # <<>> /\ subs[t].got[1] < subs[s].got[1]

\* C9, as stated: a subscriber more than N frames behind (N the capacity the
\* bus is created with) observes a lagged signal that drops only its own
\* oldest unread frames, and the next frame it receives is the newest
\* available frame; a publish never blocks, is discarded with zero
\* subscribers, and no subscriber is blocked by another.  The ring holds
\* next_power_of_two(N) frames, and a lagged receiver resumes at the oldest
\* frame the ring holds.
C9_LaggedResumesAtNewest ==
  [][/\ \A s \in Subscribers : Receives(s) =>
          /\ Behind(s) > BusCapacity =>
               /\ subs'[s].sig = "lagged"
               /\ \A t \in Subscribers \ {s} : subs'[t] = subs[t]
          /\ (subs[s].sig = "lagged" /\ subs'[s].sig = "frame")
               => Last(subs'[s].got) = Unwrap(Newest(chan))
     /\ Publishes =>
          /\ subs' = subs
          /\ chan.rx_cnt = 0 => chan'.buffer = chan.buffer /\ chan'.ret = "Err"]_vars

\* what a step of the bus does to a receiver that is behind, and to the ring
C9_Step ==
  /\ \A s \in Subscribers : Receives(s) =>
       /\ chan' = chan
       /\ \A t \in Subscribers \ {s} : subs'[t] = subs[t]
       /\ IF Behind(s) > Capacity
          THEN /\ subs'[s].sig = "lagged"
               /\ subs'[s].missed = Behind(s) - Capacity
               /\ subs'[s].next = subs[s].next + subs'[s].missed
               /\ subs'[s].got = subs[s].got
               /\ Behind(s)' = Capacity
          ELSE /\ subs'[s].sig = "frame"
               /\ subs'[s].got = Append(subs[s].got, Unwrap(SlotOf(chan, subs[s].next).val))
       /\ (subs[s].sig = "lagged" /\ subs'[s].sig = "frame")
            => Last(subs'[s].got) = Unwrap(Oldest(chan))
  /\ Publishes =>
       /\ subs' = subs
       /\ chan.rx_cnt = 0 =>
            /\ chan'.buffer = chan.buffer /\ chan'.pos = chan.pos
            /\ chan'.ret = "Err"
       /\ chan.rx_cnt > 0 => Newest(chan') = Some(chan'.sent)

\* a send and a recv that has something to return can always be taken
C9_NothingBlocks ==
  /\ chan.sent < MaxSent => ENABLED Send
  /\ \A s \in Subscribers :
       (subs[s].st = "open" /\ Behind(s) > 0) => ENABLED Recv(s)

\* C9, amended: a subscriber more than the ring's capacity behind (the
\* capacity the bus is created with, rounded up to a power of two) observes a
\* lagged signal with the number of frames it missed, which are its own oldest
\* unread frames and nobody else's, and the next frame it receives is the
\* oldest frame the ring still holds; a subscriber at most that far behind
\* receives its next frame.  A publish never blocks, is discarded with zero
\* subscribers, and no subscriber is blocked by another.
C9_LaggedResumesAtOldest == []C9_NothingBlocks /\ [][C9_Step]_vars

\* a subscriber that lagged has received the oldest frame of a full ring,
\* which is not the newest one
C9_Witness ==
  \E s \in Subscribers :
    /\ subs[s].st = "open" /\ subs[s].sig = "frame"
    /\ Len(subs[s].got) >= 2
    /\ Last(subs[s].got) > subs[s].got[Len(subs[s].got) - 1] + 1
    /\ Some(Last(subs[s].got)) = Oldest(chan)
    /\ Oldest(chan) # Newest(chan)

(***************************************************************************)
(* The projection of a frame (SpecJson).                                   *)
(***************************************************************************)
\* whether the frame holds section S; the extras are a section that is
\* populated when not empty
Populated(f, S) == IF S = "extras" THEN f.extras ELSE IsSome(f.sections[S])

\* the header fields a projected frame holds
HeaderKeys(f) == {"timestamp", "game"} \cup (IF IsSome(f.tick) THEN {"tick"} ELSE {})

NonAll(opt_mask) == IsSome(opt_mask) /\ ~is_all(Unwrap(opt_mask))

\* C10: for every frame and every non-all mask M the top-level keys of the
\* serialized output are exactly the header fields (timestamp, game, and
\* tick iff present) plus each section S for which M.includes(S) is true and
\* S is populated in the frame; with no mask or an all-including mask the
\* full frame is emitted, every field of it.
C10_KeysAreHeaderPlusIncluded ==
  IsSome(json) =>
    LET f   == Unwrap(frame)
        out == Unwrap(json)
    IN  IF NonAll(mask)
        THEN /\ DOMAIN out = HeaderKeys(f) \cup
                  {S \in SectionSet \cup {"extras"} :
                     includes(Unwrap(mask), Chars[S]) /\ Populated(f, S)}
             /\ \A k \in DOMAIN out : out[k] = "value"
        ELSE /\ {"timestamp", "game", "tick"} \cup SectionSet \subseteq DOMAIN out
             /\ DOMAIN out \subseteq
                  {"timestamp", "game", "tick", "extras"} \cup SectionSet
             /\ out["tick"] = to_value(f.tick)
             /\ \A S \in SectionSet : out[S] = to_value(f.sections[S])
             /\ "extras" \in DOMAIN out <=> f.extras

\* a frame without a tick, projected by a mask that includes a populated
\* section and an absent one and leaves out another populated section
C10_Witness ==
  /\ IsSome(json) /\ NonAll(mask)
  /\ ~IsSome(Unwrap(frame).tick)
  /\ "tick" \notin DOMAIN Unwrap(json)
  /\ \E S1, S2, S3 \in SectionSet :
       /\ includes(Unwrap(mask), Chars[S1]) /\ Populated(Unwrap(frame), S1)
       /\ S1 \in DOMAIN Unwrap(json)
       /\ includes(Unwrap(mask), Chars[S2]) /\ ~Populated(Unwrap(frame), S2)
       /\ S2 \notin DOMAIN Unwrap(json)
       /\ ~includes(Unwrap(mask), Chars[S3]) /\ Populated(Unwrap(frame), S3)
       /\ S3 \notin DOMAIN Unwrap(json)

(***************************************************************************)
(* The field mask (SpecMask).                                              *)
(***************************************************************************)
\* the tokens of the expression: its items trimmed and lowercased, the empty
\* ones dropped
TokensOf(its) == {to_lowercase(trim(its[i])) : i \in DOMAIN its} \ {<<>>}

HasDot(str) == \E i \in DOMAIN str : str[i] = "."

\* the text before the first '.' of a string that has one
BeforeFirstDot(str) ==
  LET n == CHOOSE n \in DOMAIN str :
             str[n] = "." /\ \A i \in 1 .. n - 1 : str[i] # "."
  IN  SubSeq(str, 1, n - 1)

\* C11: for a mask built from a comma-delimited expression (tokens trimmed,
\* lowercased, empty tokens dropped) includes(path) is true exactly when the
\* lowercased path equals a token, or the text before the path's first '.'
\* equals a token, or some token starts with the path followed by '.'; an
\* all-including mask returns true for every path, and the mask parsed from
\* the empty expression includes no path.
C11_IncludesExactly ==
  IsSome(included) =>
    LET p == to_lowercase(path)
        tokens == TokensOf(entries)
    IN  /\ is_all(Unwrap(built)) => Unwrap(included)
        /\ ~is_all(Unwrap(built)) =>
             /\ Unwrap(built).fields = tokens
             /\ Unwrap(included) <=>
                  \/ p \in tokens
                  \/ HasDot(p) /\ BeforeFirstDot(p) \in tokens
                  \/ \E t \in tokens : starts_with(t, p \o Dot)
             /\ expr = <<>> => ~Unwrap(included)

\* a section asked of a mask whose only token is a dotted path below it
C11_Witness ==
  /\ included = Some(TRUE) /\ IsSome(built) /\ ~is_all(Unwrap(built))
  /\ path = Chars.vehicle
  /\ Unwrap(built).fields = {Chars.vehicle \o Dot \o Speed}
  /\ Len(entries) = 2

\* the sub-fields the output holds of the vehicle section: "value" is the
\* section as serde writes it, with every field of VehicleData
VehicleKeys(out) ==
  IF "vehicle" \in DOMAIN out /\ out["vehicle"] = "value" THEN VehicleData ELSE {}

\* C12: a frame serialized with a mask that holds only the dotted token
\* vehicle.speed has a vehicle section with only the sub-field speed; the
\* other sub-fields of the section and every other section are absent, the
\* header excepted.
C12_OnlyRequestedSubField ==
  ( /\ IsSome(json) /\ NonAll(mask)
    /\ Unwrap(mask).fields = {Chars.vehicle \o Dot \o Speed}
    /\ Populated(Unwrap(frame), "vehicle") )
    => /\ VehicleKeys(Unwrap(json)) = {"speed"}
       /\ DOMAIN Unwrap(json) \ HeaderKeys(Unwrap(frame)) = {"vehicle"}

(***************************************************************************)
(* The recording parser (SpecIbt).                                         *)
(***************************************************************************)
LastIbt == Unwrap(ibt_ret)

\* C13: for every start < record_count and every count,
\* read_samples_range(start, count) returns exactly
\* min(count, record_count - start) samples in index order, sample j equal
\* to read_sample(start + j) on every variable name and value; for
\* start >= record_count it fails with OutOfRange, as read_sample(i) does for
\* i >= record_count.
C13_RangeEqualsSingleReads ==
  (IsSome(ibt_ret) /\ IsSome(ibt) /\ Unwrap(ibt).ver = 2) =>
    LET h == Unwrap(ibt)
        c == LastIbt
    IN  /\ (c.op = "read_samples_range" /\ c.a < record_count(h)) =>
             /\ c.result.ok
             /\ Len(c.result.val) = Min(c.b, record_count(h) - c.a)
             /\ \A j \in 0 .. Len(c.result.val) - 1 :
                  Ok(c.result.val[j + 1]) = read_sample(h, c.a + j)
        /\ (c.op = "read_samples_range" /\ c.a >= record_count(h)) =>
             c.result = Err("OutOfRange")
        /\ (c.op = "read_sample" /\ c.a >= record_count(h)) =>
             c.result = Err("OutOfRange")

\* C14: open(path) fails with UnsupportedVersion, returning no parsed
\* recording, whenever the version field of the file header is not 2.
C14_OpenRejectsOtherVersions ==
  (IsSome(ibt_ret) /\ Unwrap(ibt_file).regions_whole /\ Unwrap(ibt_file).ver # 2) =>
    /\ ibt = None
    /\ LastIbt.op = "open" /\ LastIbt.result = Err("UnsupportedVersion")

(***************************************************************************)
(* The frames-range endpoint (SpecFrames).                                 *)
(***************************************************************************)
\* C15: a frames-range response carries the one-year immutable cache hint
\* only when the rid of the request equals the replay_id of the recording
\* loaded at that moment; a request with no rid, or with another rid, is
\* answered with no-cache.
C15_ImmutableOnlyForCurrentRid ==
  (IsSome(frames_resp) /\ Unwrap(frames_resp).status = "OK") =>
    LET a == Unwrap(frames_resp) IN
    /\ a.cache = "immutable" => a.rid = a.current
    /\ a.rid # a.current => a.cache = "no-cache"

(***************************************************************************)
(* The unified stream and the adapters (SpecStream).                       *)
(***************************************************************************)
\* the events of a topic the client has received, in order
Received(topic) == SelectSeq(client.got, LAMBDA ev : ev.event = topic)

\* every request has broadcast and the client has received all that was
\* queued for it
Settled ==
  /\ client.pc = "streaming" /\ client.initial = <<>>
  /\ ~casts.manager /\ casts.status = 0 /\ casts.sinks = 0
  /\ Unwrap(receivers.status) = <<>> /\ Unwrap(receivers.sinks) = <<>>

\* C16: the client of the unified stream receives the snapshot of each
\* topic once and before every delta of the topic, and once all requests
\* have completed its last status event and its last sinks event equal the
\* state of the server.
C16_SnapshotsThenDeltasReachServerState ==
  /\ \A topic \in {"status", "sinks"} :
       LET evs == Received(topic) IN
       \A i \in 1 .. Len(evs) : evs[i].first <=> i = 1
  /\ Settled =>
       /\ Last(Received("status")).data
            = status_json(adapters, active_adapter, disabled)
       /\ Last(Received("sinks")).data = sinks

\* the key of the slot is enabled
ActiveIsEnabled == IsSome(active_adapter) => Unwrap(active_adapter) \notin disabled

\* a step that starts an adapter starts one whose key is enabled
StartsEnabledOnly ==
  \A k \in KeySet : (~adapters[k].active /\ adapters'[k].active) => k \notin disabled

\* a step that disables the key of the slot stops the adapter and clears the slot
DisableStopsAndClears ==
  \A k \in KeySet :
    (k \notin disabled /\ k \in disabled' /\ active_adapter = Some(k))
      => (active_adapter' = None /\ ~adapters'[k].active)

\* C17: under every interleaving of detection cycles and toggles the key in
\* the active-adapter slot is not in the disabled set; the demo adapter
\* starts disabled, no step starts an adapter whose key is disabled, and the
\* step that disables the active adapter stops it and clears the slot.
C17_ActiveNeverDisabled ==
  /\ "demo" \in disabled
  /\ []ActiveIsEnabled
  /\ [][StartsEnabledOnly /\ DisableStopsAndClears]_vars

\* a toggle has just disabled the adapter that was active
C17_Witness ==
  /\ IsSome(toggled) /\ Unwrap(toggled).disable /\ Unwrap(toggled).stopped
  /\ Unwrap(toggled).key \in disabled
  /\ active_adapter = None /\ ~adapters[Unwrap(toggled).key].active

(***************************************************************************)
(* The percentage fields (SpecUnits).                                      *)
(***************************************************************************)
\* C18: every percentage of a frame built by the replay normalizer or by
\* the demo adapter is a number between 0 and 1.
C18_PercentagesInUnitInterval ==
  IsSome(produced) =>
    \A f \in DOMAIN Unwrap(produced).pct :
      LET p == Unwrap(produced).pct[f] IN
      IsSome(p) => (~Unwrap(p).nan /\ 0 <= Unwrap(p).v /\ Unwrap(p).v <= 1000)

(***************************************************************************)
(* The normalizer's sections and extras (SpecNormalizer).                  *)
(***************************************************************************)
\* C19: no variable the normalizer has read into a section field appears in
\* the extras of the frame; every name the section readers look up, the
\* per-wheel prefix plus suffix names included, is in the mapped set.
C19_SectionVariablesNotInExtras ==
  IsSome(normalized) =>
    \A name \in Unwrap(normalized).sections :
      /\ name \in MAPPED_VARS
      /\ <<"iracing/">> \o name \notin Unwrap(normalized).extras

\* C20: every variable of the sample is read into a section field, or is a
\* per-car array materialized into competitors, or is in extras under
\* iracing/<name>.
C20_NoVariableLost ==
  IsSome(normalized) =>
    \A name \in raw :
      \/ name \in Unwrap(normalized).sections
      \/ starts_with(name, CarIdx) /\ IsSome(Unwrap(normalized).competitors)
      \/ <<"iracing/">> \o name \in Unwrap(normalized).extras


\* a step in which driver d hands its frame to telemetry_tx
DriverPublishes(d) == d \in DOMAIN drivers /\ drivers[d].pc = "send" /\ drivers'[d].pc # "send"

\* C21: between two consecutive seeks (or the load and the first seek), and
\* while no read has failed, every frame a driver publishes carries the index
\* that follows the index published before it: none twice, none skipped.
C21_IndicesIncreaseByOne ==
  [][\A d \in DOMAIN drivers :
       (DriverPublishes(d) /\ run.clean /\ IsSome(run.last))
         => Unwrap(drivers[d].frame).idx = Unwrap(run.last) + 1]_vars


\* a step in which the emit step of driver d fails to read its frame
ReadFails(d) == d \in DOMAIN drivers /\ drivers[d].pc = "emit" /\ drivers'[d].pc = "sleep"

\* C24: when the read of the frame at the cursor fails, the driver publishes
\* nothing for that index, still moves the cursor forward by one (or ends the
\* playback when the cursor is on the final frame), and keeps running.
C24_ReadErrorSkipsOneFrame ==
  [][\A d \in DOMAIN drivers :
       ReadFails(d) =>
         LET rs == Unwrap(replay)
             after == Unwrap(replay')
         IN /\ drivers'[d].frame = None
            /\ last_sent' = last_sent
            /\ \/ after.current_frame = rs.current_frame + 1
               \/ /\ rs.current_frame + 1 >= rs.total_frames
                  /\ after.current_frame = rs.current_frame
                  /\ ~after.playing]_vars


\* the last request to complete is a pause of the loaded replay, and the
\* replay is still paused
PauseInForce ==
  /\ resp = Resp("pause", "OK")
  /\ IsSome(replay) /\ ~Unwrap(replay).playing

\* C27: once a pause request has completed, and until a later play, no
\* driver publishes a frame and no driver step moves the cursor, wherever the
\* pause falls between the driver's snapshot and emit steps.
C27_NothingPublishedWhilePaused ==
  [][\A d \in DOMAIN drivers :
       (PauseInForce /\ drivers'[d] # drivers[d]) =>
          /\ ~DriverPublishes(d)
          /\ IsSome(replay') =>
                Unwrap(replay').current_frame = Unwrap(replay).current_frame]_vars


\* a step in which a delete request completes
DeleteCompletes == \E r \in reqs \ reqs' : r.kind = "delete"

\* C23: a Delete that completes on a loaded replay leaves the slot empty and
\* the token of every driver still running cancelled, so that the driver
\* stops at its next check; a Delete with no replay loaded answers NotFound.
C23_DeleteStopsTheDriver ==
  [][DeleteCompletes =>
       IF IsSome(replay)
       THEN /\ resp' = Resp("delete", "NO_CONTENT")
            /\ replay' = None
            /\ \A d \in DOMAIN drivers :
                 drivers'[d] # DoneDriver => drivers'[d].token \in cancelled'
       ELSE resp' = Resp("delete", "NOT_FOUND")]_vars


\* C28: once a Delete has completed, no frame of the deleted replay is
\* published: a driver publishes only while a replay is loaded (the slot is
\* emptied by a completed Delete and by nothing else).
C28_NoFrameOfADeletedReplay ==
  [][\A d \in DOMAIN drivers : DriverPublishes(d) => IsSome(replay)]_vars


\* C30: no two sinks of the registry share an id, whatever creates and
\* deletes ran: an id create_sink generates differs from every id present.
C30_SinkIdsUnique ==
  \A i, j \in 1 .. Len(sinks) : sinks[i] = sinks[j] => i = j


\* the first registered adapter that is enabled and detected
first_detected(det, dis) ==
  LET cand == {i \in 1 .. Len(Keys) : Keys[i] \notin dis /\ det[Keys[i]]}
  IN IF cand = {} THEN None
     ELSE Some(Keys[CHOOSE i \in cand : \A j \in cand : i <= j])

\* C22: at most one adapter is started and the active slot holds k exactly
\* when adapter k is started; a detection cycle that finds the slot empty
\* records the first registered, enabled, detected adapter, and only when
\* the start() of that adapter succeeded.
C22_OneStartedFirstDetected ==
  /\ \A k \in KeySet : adapters[k].active <=> active_adapter = Some(k)
  /\ IsSome(cycle) =>
       LET c == Unwrap(cycle) IN
       /\ first_detected(c.det, c.dis) = Some(c.key)
       /\ c.ok[c.key]


\* every toggle, sink handler and manager cycle that changed something has
\* sent its broadcast
AllBroadcast == ~casts.manager /\ casts.status = 0 /\ casts.sinks = 0

\* the enabled and active flags of the adapters, from the disabled set and
\* the active slot
CurrentFlags ==
  [k \in KeySet |-> [active  |-> active_adapter = Some(k),
                     enabled |-> k \notin disabled]]

\* the last snapshot of each topic is the state of the server
LastSnapshotsCurrent ==
  /\ published.status = Some(CurrentFlags)
  /\ IF IsSome(published.sinks) THEN published.sinks = Some(sinks)
                                ELSE sinks = <<>>

\* a snapshot sent in this step is the state the server has in this step
SentSnapshotIsCurrent ==
  /\ published'.status # published.status => published'.status = Some(CurrentFlags')
  /\ published'.sinks # published.sinks => published'.sinks = Some(sinks')

\* C25: once every toggle, sink handler and manager cycle has completed, the
\* last snapshot sent on the sinks topic is the current sink list and the
\* last sent on the status topic carries the current enabled and active
\* flags; every snapshot is the state at the moment it is sent, so an older
\* one never follows a newer one.
C25_LastSnapshotIsCurrent ==
  /\ [](AllBroadcast => LastSnapshotsCurrent)
  /\ [][SentSnapshotIsCurrent]_vars

\* all is broadcast after a toggle, a started adapter and a change of the
\* sinks: the last snapshots differ from the first ones
C25_Witness ==
  /\ AllBroadcast /\ ops = MaxOps
  /\ IsSome(toggled) /\ IsSome(active_adapter)
  /\ published.sinks = Some(sinks) /\ sinks # <<>>
  /\ published.status = Some(CurrentFlags)


(***************************************************************************)
(* The session YAML (SpecYaml).                                            *)
(***************************************************************************)
\* the field of the session info each text key fills
KeyField ==
  ("TrackName:" :> "track_name") @@ ("TrackDisplayName:" :> "track_display_name")
  @@ ("TrackConfigName:" :> "track_config_name") @@ ("TrackLength:" :> "track_length")
  @@ ("CarScreenName:" :> "car_screen_name") @@ ("UserName:" :> "driver_name")
  @@ ("SessionType:" :> "session_type")

\* the trimmed value of the first line whose trimmed text starts with key
FirstValue(key) ==
  LET at == {i \in 1 .. Len(yaml) :
               IsSome(try_extract_yaml_value(trim(yaml[i]), key))}
  IN IF at = {} THEN None
     ELSE try_extract_yaml_value(trim(yaml[CHOOSE i \in at : \A j \in at : i <= j]),
                                 key)

\* C26: for every recognized key of the session YAML the field of the
\* session info holds the trimmed value of the first line, in file order,
\* whose trimmed text starts with the key (an empty TrackDisplayName falls
\* back to the track name, DriverCarIdx is the parsed integer or 0); a later
\* line with the same key does not change the field.
C26_FirstOccurrenceWins ==
  IsSome(session_info) =>
    LET inf == Unwrap(session_info) IN
    /\ \A key \in DOMAIN KeyField :
         IsSome(FirstValue(key)) =>
           inf[KeyField[key]] =
             IF key = "TrackDisplayName:" /\ Unwrap(FirstValue(key)) = <<>>
             THEN inf.track_name
             ELSE Unwrap(FirstValue(key))
    /\ IsSome(FirstValue("DriverCarIdx:")) =>
         LET idx == parse_i32(Unwrap(FirstValue("DriverCarIdx:")))
         IN inf.driver_car_idx = IF IsSome(idx) THEN Unwrap(idx) ELSE 0


(***************************************************************************)
(* The locks of AppState (SpecLocks).                                      *)
(***************************************************************************)
\* the locks task t holds a guard of
Holds(t) == {l \in Locks : \E g \in held[l] : g[1] = t}

\* task t has requested a lock and was not granted it yet
Waiting(t) == \E l \in Locks : InQueue(t, l)

\* the one order of the requests made while a lock is held
Rank == ("adapters" :> 1) @@ ("active_adapter" :> 2) @@ ("disabled_adapters" :> 3)

\* a task that holds a lock and requests another holds only locks of the
\* adapters that come before the requested one
RequestsInOrder ==
  \A t \in Tasks :
    (tasks[t].ops # <<>> /\ Head(tasks[t].ops).op = "acquire" /\ Holds(t) # {})
      => /\ Head(tasks[t].ops).lock \in DOMAIN Rank
         /\ \A h \in Holds(t) :
              h \in DOMAIN Rank /\ Rank[h] < Rank[Head(tasks[t].ops).lock]

NeverHeldTogether ==
  \A t \in Tasks : ~({"replay", "replay_cancel"} \subseteq Holds(t))

\* a task whose request cannot be granted in this state
Stuck(t) ==
  \E l \in Locks :
    /\ InQueue(t, l)
    /\ ~(Head(waiters[l])[1] = t /\ available(l, Head(waiters[l])[2]))

\* C29: a task that holds a lock and requests another follows the order
\* adapters, active_adapter, disabled_adapters; replay and replay_cancel are
\* never held together; the tasks are never all stuck; and, the tasks being
\* scheduled fairly, every lock request is eventually granted.
C29_LockOrderNoDeadlock ==
  /\ [](RequestsInOrder /\ NeverHeldTogether /\ \E t \in Tasks : ~Stuck(t))
  /\ \A t \in Tasks : Waiting(t) ~> ~Waiting(t)

\* a task holds the guard of adapters and waits for active_adapter, and
\* another task waits for adapters behind it
C29_Witness ==
  \E t, u \in Tasks :
    /\ t # u
    /\ "adapters" \in Holds(t) /\ InQueue(t, "active_adapter")
    /\ InQueue(u, "adapters")

====
